---- MODULE Spec2Model ----
(***************************************************************************)
(* Cost-strategy engine of custom_teleport (cost_strategy package):        *)
(* distance -> cost -> consumption of experience, items, hunger, health.   *)
(*                                                                         *)
(* Numbers.  Python floats and Decimals are modelled as exact rationals    *)
(* <<n, d>> in lowest terms with d > 0.  Every input the model draws is a  *)
(* small dyadic rational, on which binary floating point is exact; the     *)
(* one place where the code rounds on purpose, round(x, 7), is modelled    *)
(* as the rounding it is.                                                  *)
(***************************************************************************)
EXTENDS Integers, Sequences, FiniteSets, TLC

----------------------------------------------------------------------------
(* Program constants *)

\* range(255, 0, -1) of calculate_hunger_effect
MaxAmplifier == 255
\* round(cost_value, 7): 10^7
RoundScale == 10000000

----------------------------------------------------------------------------
(* Rational arithmetic *)

Abs(n) == IF n < 0 THEN -n ELSE n

RECURSIVE GCD(_, _)
GCD(a, b) == IF b = 0 THEN a ELSE GCD(b, a % b)

\* the rational n/d in lowest terms, d # 0
R(n, d) ==
    LET s == IF d < 0 THEN -1 ELSE 1
        g == GCD(Abs(n), Abs(d))
    IN  <<(s * n) \div g, (s * d) \div g>>

Num(x) == x[1]
Den(x) == x[2]
I(n) == <<n, 1>>
Zero == <<0, 1>>

RAdd(x, y) == R(x[1] * y[2] + y[1] * x[2], x[2] * y[2])
RNeg(x) == <<-x[1], x[2]>>
RSub(x, y) == RAdd(x, RNeg(y))
\* cross-reduced product, so that intermediate values stay small
RMul(x, y) ==
    LET a == R(x[1], y[2])
        b == R(y[1], x[2])
    IN  <<a[1] * b[1], a[2] * b[2]>>
RInv(x) == R(x[2], x[1])
RDiv(x, y) == RMul(x, RInv(y))
RLt(x, y) == x[1] * y[2] < y[1] * x[2]
RLe(x, y) == x[1] * y[2] <= y[1] * x[2]
RGt(x, y) == RLt(y, x)
RGe(x, y) == RLe(y, x)
RMax(x, y) == IF RLt(x, y) THEN y ELSE x
RMin(x, y) == IF RLt(y, x) THEN y ELSE x
RAbs(x) == <<Abs(x[1]), x[2]>>
RIsInt(x) == x[2] = 1
\* math.floor / math.ceil
Floor(x) == x[1] \div x[2]
\* a variant of math.ceil that rounds down
ceil_rounding_down(x) == x[1] \div x[2]
Ceil(x) == -((-x[1]) \div x[2])

\* int(x): truncation toward zero
Trunc(x) == IF x[1] < 0 THEN Ceil(x) ELSE Floor(x)

----------------------------------------------------------------------------
(* Binary64 rounding.  A float that is a short rational is that rational
   <<n, d>>.  Any other float is <<n, d, err, den, exp>>: the double at
   n/d + err / (den * 2^exp), a nearest neighbour of the short rational n/d,
   err # 0.  The rational operators read n/d only; float_lt also reads err. *)

\* 2^k for small k
RECURSIVE pow2(_)
pow2(k) == IF k = 0 THEN 1 ELSE 2 * pow2(k - 1)

\* 2^k mod m
RECURSIVE pow2mod(_, _)
pow2mod(k, m) == IF k = 0 THEN 1 % m ELSE (2 * pow2mod(k - 1, m)) % m

\* x * y mod m without a large intermediate product
RECURSIVE mulmod(_, _, _)
mulmod(x, y, m) ==
    IF y = 0 THEN 0
    ELSE (2 * mulmod(x, y \div 2, m) + (y % 2) * (x % m)) % m

\* the odd part of a positive integer, and the exponent of its power of two
RECURSIVE odd_part(_)
odd_part(n) == IF n % 2 = 0 THEN odd_part(n \div 2) ELSE n

RECURSIVE two_part(_)
two_part(n) == IF n % 2 = 0 THEN 1 + two_part(n \div 2) ELSE 0

\* floor(log2(a/b)) for a, b > 0
RECURSIVE log2_floor(_, _)
log2_floor(a, b) ==
    IF a < b THEN log2_floor(2 * a, b) - 1
    ELSE IF a >= 2 * b THEN log2_floor(a, 2 * b) + 1
    ELSE 0

\* the doubles around x > 0 are the multiples of 2^-ulp_exp(x)
ulp_exp(x) == 52 - log2_floor(x[1], x[2])

\* the double nearest to q + err / (den * 2^exp), ties to the even mantissa,
\* for q > 0 whose odd denominator part divides den and exp >= ulp_exp(q)
float_round(q, err, den, exp) ==
    LET power_of_two == odd_part(q[1]) = 1 /\ odd_part(q[2]) = 1
        k == IF power_of_two /\ err < 0 THEN ulp_exp(q) + 1 ELSE ulp_exp(q)
        D == den * pow2(exp - k)
        scaled == mulmod((q[1] * (den \div odd_part(q[2]))) % (2 * D),
                         pow2mod(exp - two_part(q[2]), 2 * D), 2 * D)
        N == (scaled + err) % (2 * D)
        r == N % D
        odd == N >= D
        up == 2 * r > D \/ (2 * r = D /\ odd)
        total == err + (IF up THEN D - r ELSE -r)
    IN  IF total = 0 THEN q ELSE <<q[1], q[2], total, den, exp>>

\* float("<decimal literal q>")
float_of(q) ==
    IF q[1] <= 0 \/ odd_part(q[2]) = 1 THEN q
    ELSE float_round(q, 0, odd_part(q[2]), ulp_exp(q))

float_err(x) == IF Len(x) = 2 THEN 0 ELSE x[3]
float_den(x) == IF Len(x) = 2 THEN 1 ELSE x[4]
float_exp(x, other) == IF Len(x) = 2 THEN other ELSE x[5]

\* count * x for an int count >= 0 and a float x >= 0
float_times(count, x) ==
    IF count = 0 \/ x[1] = 0 THEN Zero
    ELSE IF Len(x) = 2 THEN RMul(I(count), x)
    ELSE float_round(RMul(I(count), <<x[1], x[2]>>), count * x[3], x[4], x[5])

\* x + y for floats x, y >= 0
float_plus(x, y) ==
    IF x[1] = 0 THEN y
    ELSE IF y[1] = 0 THEN x
    ELSE IF Len(x) = 2 /\ Len(y) = 2 THEN RAdd(x, y)
    ELSE LET ex == float_exp(x, float_exp(y, 0))
             ey == float_exp(y, ex)
             exp == IF ex < ey THEN ey ELSE ex
             den == (float_den(x) * float_den(y))
                    \div GCD(float_den(x), float_den(y))
             err == float_err(x) * (den \div float_den(x)) * pow2(exp - ex)
                    + float_err(y) * (den \div float_den(y)) * pow2(exp - ey)
         IN  float_round(RAdd(<<x[1], x[2]>>, <<y[1], y[2]>>), err, den, exp)

\* x < y for a float x and a float y that is a short rational
float_lt(x, y) ==
    \/ RLt(x, y)
    \/ x[1] * y[2] = y[1] * x[2] /\ float_err(x) < 0

----------------------------------------------------------------------------
(* Resource model: cost_strategy/utils.py *)

\* Item(count, id, components); the components mapping is modelled by a tag,
\* "" being the empty mapping
Item(count, id, components) ==
    [count |-> count, id |-> id, components |-> components]

\* Item.to_component: the id, followed by the components when there are any
to_component(item) ==
    IF item.components = "" THEN <<item.id>> ELSE <<item.id, item.components>>

Hunger(level, saturation_level, exhaustion_level) ==
    [level |-> level, saturation_level |-> saturation_level,
     exhaustion_level |-> exhaustion_level]

\* ResourceState(items, experience, hunger, health); experience is the
\* Experience object's points
ResourceState(items, experience, hunger, health) ==
    [items |-> items, experience |-> experience, hunger |-> hunger,
     health |-> health]

\* Experience.from_level(level).points for an integer level (the only levels
\* the engine passes); int() truncates toward zero
from_level(level) ==
    LET sign == IF level < 0 THEN -1 ELSE 1
        l == Abs(level)
        points ==
            IF l <= 16 THEN I(l * l + 6 * l)
            ELSE IF l <= 31 THEN R(5 * l * l - 81 * l + 720, 2)
            ELSE R(9 * l * l - 325 * l + 4440, 2)
    IN  Trunc(RMul(points, I(sign)))

\* to_level, first loop: double high until from_level(high) exceeds experience
RECURSIVE to_level_expand(_, _)
to_level_expand(high, experience) ==
    IF RLe(I(from_level(high)), experience)
    THEN to_level_expand(high * 2, experience)
    ELSE high

\* a variant of the binary search that takes a level only when its points
\* are below the experience
RECURSIVE to_level_search_below(_, _, _, _)
to_level_search_below(low, high, best, experience) ==
    IF low <= high
    THEN LET mid == (low + high) \div 2
         IN  IF RLt(I(from_level(mid)), experience)
             THEN to_level_search_below(mid + 1, high, mid, experience)
             ELSE to_level_search_below(low, mid - 1, best, experience)
    ELSE best

\* to_level, second loop: binary search of the largest level within experience
RECURSIVE to_level_search(_, _, _, _)
to_level_search(low, high, best, experience) ==
    IF low <= high
    THEN LET mid == (low + high) \div 2
         IN  IF RLe(I(from_level(mid)), experience)
             THEN to_level_search(mid + 1, high, mid, experience)
             ELSE to_level_search(low, mid - 1, best, experience)
    ELSE best

\* Experience(points).to_level() = <<level, remaining points>>
to_level(points) ==
    LET experience == RAbs(points)
        high == to_level_expand(1, experience)
        best == to_level_search(0, high, 0, experience)
        remaining == RSub(experience, I(from_level(best)))
    IN  IF RLt(points, Zero) THEN <<-best, RNeg(remaining)>>
        ELSE <<best, remaining>>

\* Hunger.total (getter)
hunger_total(h) ==
    RSub(RAdd(h.level, h.saturation_level), RDiv(h.exhaustion_level, I(4)))

\* a variant of the setter that takes a decrease from level alone
hunger_set_total_from_level(h, value) ==
    [h EXCEPT !.level = RAdd(h.level, RSub(value, hunger_total(h)))]

\* Hunger.total (setter)
hunger_set_total(h, value) ==
    LET subtract == RSub(value, hunger_total(h))
    IN  IF RLt(subtract, Zero)
        THEN LET sat == RAdd(h.saturation_level, subtract)
             IN  IF RLt(sat, Zero)
                 THEN [h EXCEPT !.level = RAdd(h.level, sat),
                                !.saturation_level = Zero]
                 ELSE [h EXCEPT !.saturation_level = sat]
        ELSE LET lvl == RAdd(h.level, subtract)
             IN  IF RGt(lvl, I(20))
                 THEN [h EXCEPT !.level = I(20),
                                !.saturation_level =
                                    RAdd(h.saturation_level, RSub(lvl, I(20)))]
                 ELSE [h EXCEPT !.level = lvl]

----------------------------------------------------------------------------
(* Consumption strategies: cost_strategy/consumption.py *)

\* the outcome of one apply_cost call.  raised = "" when the call returned
\* <<remaining, commands>>; otherwise raised names the exception, err holds
\* its attributes and resources is the state the in-place mutation had
\* reached when the exception left the call
NoErr == [resource_type |-> "", available |-> Zero, required |-> Zero,
          strategy |-> ""]

Returned(remaining, commands, resources, children) ==
    [raised |-> "", err |-> NoErr, remaining |-> remaining,
     commands |-> commands, resources |-> resources, children |-> children]

Raised(name, err, resources, children) ==
    [raised |-> name, err |-> err, remaining |-> Zero, commands |-> <<>>,
     resources |-> resources, children |-> children]

\* a variant of the error that stores the two amounts the other way round
InsufficientError_swapped(resource_type, available, required, strategy) ==
    [resource_type |-> resource_type, available |-> required,
     required |-> available, strategy |-> strategy]

\* QuantitativeInsufficientResourcesError(resource_type, available, required)
\* and InsufficientExperienceError(available, required, strategy)
InsufficientError(resource_type, available, required, strategy) ==
    [resource_type |-> resource_type, available |-> available,
     required |-> required, strategy |-> strategy]

InsufficientNames ==
    {"InsufficientExperienceError", "InsufficientItemsError",
     "InsufficientHungerError", "InsufficientHealthError"}

\* except InsufficientResourcesError: the four subclasses
IsInsufficient(out) == out.raised \in InsufficientNames

\* a Command string, kept as its parts: the command, what it acts on (item
\* or unit or damage type), the amount, and the effect amplifier
Command(cmd, what, amount, amplifier) ==
    [cmd |-> cmd, what |-> what, amount |-> amount, amplifier |-> amplifier]

\* a variant in which a short pool raises whatever the check_strategy
raises_insufficient_ignoring_check(self, available, required) ==
    float_lt(available, required)

\* the test that makes a leaf raise: the pool is short and the check is strict
\* (ExperienceCost, ItemValueCost, HungerEffectCost and HealthCost alike)
raises_insufficient(self, available, required) ==
    float_lt(available, required) /\ self.check_strategy = "strict"

\* a variant in which the deduction precedes the raise
resources_at_raise_after_deduction(resources, deducted) == deducted

\* the ResourceState at the moment a leaf raises: the raise precedes every
\* assignment to resources
resources_at_raise(resources, deducted) == resources

\* ExperienceCost.apply_cost; self.draw is what _select_strategy returned
ExperienceCost_apply_cost(self, cost_value, resources) ==
    LET selected_strategy == self.draw
        points == resources.experience
        level == to_level(points)
        next_level_points == from_level(level[1] + 1)
        required_experience ==
            IF selected_strategy = "points"
            THEN I(Ceil(RMul(cost_value, self.rate)))
            ELSE RMul(cost_value, self.rate)
        resource_experience ==
            IF selected_strategy = "points"
            THEN points
            ELSE RAdd(I(level[1]), RDiv(level[2], I(next_level_points)))
        commands ==
            <<Command("xp add @s",
                      IF selected_strategy = "points" THEN <<"points">>
                      ELSE <<"levels">>,
                      RNeg(required_experience), 0)>>
        remaining ==
            IF self.pass_strategy = "propagate"
            THEN RSub(cost_value, RDiv(resource_experience, self.rate))
            ELSE cost_value
    IN  IF selected_strategy # "points" /\ next_level_points = 0
        THEN Raised("ZeroDivisionError", NoErr, resources, <<>>)
        ELSE IF raises_insufficient(self, resource_experience,
                                    required_experience)
        THEN Raised("InsufficientExperienceError",
                    InsufficientError("experience", resource_experience,
                                      required_experience, selected_strategy),
                    resources_at_raise(resources,
                        [resources EXCEPT
                            !.experience = RSub(points, required_experience)]),
                    <<>>)
        ELSE Returned(remaining, commands,
                      [resources EXCEPT
                          !.experience = RSub(points, required_experience)],
                      <<>>)

Min(a, b) == IF a < b THEN a ELSE b

\* sorted(items, key=price, reverse=reverse): stable insertion of x
RECURSIVE sorted_insert(_, _, _)
sorted_insert(seq, x, reverse) ==
    IF seq = <<>> THEN <<x>>
    ELSE IF (IF reverse THEN RGe(Head(seq)[2], x[2])
             ELSE RLe(Head(seq)[2], x[2]))
    THEN <<Head(seq)>> \o sorted_insert(Tail(seq), x, reverse)
    ELSE <<x>> \o seq

RECURSIVE sorted_items(_, _)
sorted_items(items, reverse) ==
    IF items = <<>> THEN <<>>
    ELSE sorted_insert(sorted_items(SubSeq(items, 1, Len(items) - 1), reverse),
                       items[Len(items)], reverse)

\* id_counts[item_id] of a defaultdict(int)
Count(id_counts, item_id) ==
    IF item_id \in DOMAIN id_counts THEN id_counts[item_id] ELSE 0

\* calculate_combination, step 1: greedy maximal take along the sorted order;
\* acc = [result, remaining]
RECURSIVE combination_pass1(_, _, _, _)
combination_pass1(order, i, id_counts, acc) ==
    IF i > Len(order) \/ RLe(acc.remaining, Zero) THEN acc
    ELSE LET item_id == order[i][1]
             value == order[i][2]
             max_possible ==
                 Min(Count(id_counts, item_id),
                     Trunc(RDiv(acc.remaining, value)))
         IN  IF RLe(value, Zero) \/ max_possible <= 0
             THEN combination_pass1(order, i + 1, id_counts, acc)
             ELSE combination_pass1(order, i + 1, id_counts,
                     [result |-> [acc.result EXCEPT ![item_id] = max_possible],
                      remaining |->
                          RSub(acc.remaining, RMul(I(max_possible), value))])

RECURSIVE combination_pass2(_, _, _, _)

\* a variant of step 2 that takes every available unit of an item it tops up
\* with
combination_pass2_all(reverse_sorted, i, id_counts, acc) ==
    IF i > Len(reverse_sorted) \/ RLe(acc.remaining, Zero) THEN acc
    ELSE LET item_id == reverse_sorted[i][1]
             value == reverse_sorted[i][2]
             current_taken == acc.result[item_id]
             available == Count(id_counts, item_id) - current_taken
         IN  IF RLe(value, Zero) \/ available <= 0
             THEN combination_pass2(reverse_sorted, i + 1, id_counts, acc)
             ELSE combination_pass2(reverse_sorted, i + 1, id_counts,
                     [result |->
                          [acc.result EXCEPT ![item_id] = Count(id_counts,
                                                                item_id)],
                      remaining |->
                          RSub(acc.remaining, RMul(I(available), value))])

\* calculate_combination, step 2: ceiling top-up along the opposite order
combination_pass2(reverse_sorted, i, id_counts, acc) ==
    IF i > Len(reverse_sorted) \/ RLe(acc.remaining, Zero) THEN acc
    ELSE LET item_id == reverse_sorted[i][1]
             value == reverse_sorted[i][2]
             current_taken == acc.result[item_id]
             available == Count(id_counts, item_id) - current_taken
             needed == Ceil(RDiv(acc.remaining, value))
             take == Min(needed, available)
         IN  IF RLe(value, Zero) \/ available <= 0
             THEN combination_pass2(reverse_sorted, i + 1, id_counts, acc)
             ELSE combination_pass2(reverse_sorted, i + 1, id_counts,
                     [result |->
                          [acc.result EXCEPT ![item_id] = current_taken + take],
                      remaining |-> RSub(acc.remaining, RMul(I(take), value))])

\* the entries of the sorted order with a positive count, as <<id, count>>
RECURSIVE drop_zero(_, _)
drop_zero(order, result) ==
    IF order = <<>> THEN <<>>
    ELSE (IF result[Head(order)[1]] > 0
          THEN <<<<Head(order)[1], result[Head(order)[1]]>>>>
          ELSE <<>>) \o drop_zero(Tail(order), result)

\* calculate_combination(items_dict, id_counts, cost_value, strategy) with
\* strategy already drawn when it is random; items_dict is the price table in
\* insertion order, as <<id, price>> pairs
calculate_combination(items_dict, id_counts, cost_value, strategy) ==
    LET reverse_sort == (strategy = "higher-first")
        order == sorted_items(items_dict, reverse_sort)
        start == [result |-> [k \in {items_dict[j][1] : j \in DOMAIN items_dict}
                                 |-> 0],
                  remaining |-> cost_value]
        step1 == combination_pass1(order, 1, id_counts, start)
        step2 == IF RGt(step1.remaining, Zero)
                 THEN combination_pass2(sorted_items(items_dict, ~reverse_sort),
                                        1, id_counts, step1)
                 ELSE step1
    IN  drop_zero(order, step2.result)

\* self.items[item_id]
Price(items_dict, item_id) ==
    LET j == CHOOSE j \in DOMAIN items_dict : items_dict[j][1] = item_id
    IN  items_dict[j][2]

\* sum(count * self.items[item_id] for item_id, count in consumed.items()):
\* float products added from the left, starting from 0
RECURSIVE total_paid_from(_, _, _)
total_paid_from(acc, consumed, items_dict) ==
    IF consumed = <<>> THEN acc
    ELSE total_paid_from(
            float_plus(acc,
                       float_times(Head(consumed)[2],
                                   float_of(Price(items_dict,
                                                  Head(consumed)[1])))),
            Tail(consumed), items_dict)

total_paid(consumed, items_dict) ==
    total_paid_from(Zero, consumed, items_dict)

\* id_counts of ItemValueCost.apply_cost: per priced id, the sum of the counts
\* of its stacks
RECURSIVE stack_sum(_, _)
stack_sum(items, item_id) ==
    IF items = <<>> THEN 0
    ELSE (IF Head(items).id = item_id THEN Head(items).count ELSE 0)
         + stack_sum(Tail(items), item_id)

make_id_counts(items, items_dict) ==
    [k \in {items[j].id : j \in DOMAIN items}
           \cap {items_dict[j][1] : j \in DOMAIN items_dict}
        |-> stack_sum(items, k)]

\* a variant of list.remove that leaves the list as it is
list_remove_nothing(items, x) == items

\* list.remove(x): drops the first element equal to x
RECURSIVE list_remove(_, _)
list_remove(items, x) ==
    IF items = <<>> THEN <<>>
    ELSE IF Head(items) = x THEN Tail(items)
    ELSE <<Head(items)>> \o list_remove(Tail(items), x)

\* the inner loop of ItemValueCost.apply_cost for one consumed id: walks the
\* stacks of that id in list order from position p; acc = [items, commands].
\* A stack emptied at p leaves the list (the first element equal to it, which
\* is at or before p), so the next stack is found at p again
RECURSIVE consume_stacks(_, _, _, _)
consume_stacks(acc, p, item_id, remaining_count) ==
    IF p > Len(acc.items) \/ remaining_count <= 0 THEN acc
    ELSE IF acc.items[p].id # item_id
    THEN consume_stacks(acc, p + 1, item_id, remaining_count)
    ELSE LET item == acc.items[p]
             take == Min(remaining_count, item.count)
             left == [item EXCEPT !.count = item.count - take]
             updated == [acc.items EXCEPT ![p] = left]
             commands ==
                 Append(acc.commands,
                        Command("clear @s", to_component(item), I(take), 0))
         IN  IF left.count = 0
             THEN consume_stacks(
                     [items |-> list_remove(updated, left),
                      commands |-> commands],
                     p, item_id, remaining_count - take)
             ELSE consume_stacks([items |-> updated, commands |-> commands],
                                 p + 1, item_id, remaining_count - take)

\* the outer loop over consumed.items()
RECURSIVE consume_all(_, _)
consume_all(acc, consumed) ==
    IF consumed = <<>> THEN acc
    ELSE consume_all(
            consume_stacks(acc, 1, Head(consumed)[1], Head(consumed)[2]),
            Tail(consumed))

\* ItemValueCost.apply_cost; self.draw is the order calculate_combination
\* used (the strategy itself, or its random.choice)
ItemValueCost_apply_cost(self, cost_value, resources) ==
    LET id_counts == make_id_counts(resources.items, self.items)
        required_cost_value == RMul(cost_value, self.rate)
        consumed == calculate_combination(self.items, id_counts,
                                          required_cost_value, self.draw)
        paid == total_paid(consumed, self.items)
        remaining ==
            IF self.pass_strategy = "propagate"
            THEN RSub(cost_value, RDiv(paid, self.rate))
            ELSE cost_value
        applied == consume_all([items |-> resources.items, commands |-> <<>>],
                               consumed)
    IN  IF raises_insufficient(self, paid, required_cost_value)
        THEN Raised("InsufficientItemsError",
                    InsufficientError("items", paid, required_cost_value, ""),
                    resources_at_raise(resources,
                        [resources EXCEPT !.items = applied.items]),
                    <<>>)
        ELSE Returned(remaining, applied.commands,
                      [resources EXCEPT !.items = applied.items], <<>>)

\* a variant of the iteration that lets a later, smaller amplifier win a tie
hunger_effect_step_smaller(e, d, best) ==
    LET s == Ceil(RDiv(d, I(e)))
        error == RSub(I(s * e), d)
    IN  IF best.inf \/ RLe(error, best.min_error)
        THEN [e |-> e, s |-> s, min_error |-> error, inf |-> FALSE,
              done |-> (error = Zero)]
        ELSE best

\* one iteration of the loop of calculate_hunger_effect;
\* best = [e, s, min_error, inf, done]: inf stands for min_error =
\* float('inf'), done for the break having been taken
hunger_effect_step(e, d, best) ==
    LET s == Ceil(RDiv(d, I(e)))
        error == RSub(I(s * e), d)
    IN  IF best.inf \/ RLt(error, best.min_error)
           \/ (error = best.min_error /\ e > best.e)
        THEN [e |-> e, s |-> s, min_error |-> error, inf |-> FALSE,
              done |-> (error = Zero)]
        ELSE best

\* the iterations e = hi, hi - 1, ..., lo of that loop, in this order (the
\* range is halved only to keep the evaluation shallow)
RECURSIVE hunger_effect_loop(_, _, _, _)
hunger_effect_loop(lo, hi, d, best) ==
    IF best.done \/ lo > hi THEN best
    ELSE IF lo = hi THEN hunger_effect_step(lo, d, best)
    ELSE LET mid == (lo + hi) \div 2
         IN  hunger_effect_loop(lo, mid, d,
                                hunger_effect_loop(mid + 1, hi, d, best))

\* a variant that never finds an effect
calculate_hunger_effect_none(food_level, target_level) == <<0, 0>>

\* calculate_hunger_effect(food_level, target_level) = <<duration, amplifier>>
calculate_hunger_effect(food_level, target_level) ==
    LET delta == RSub(food_level, target_level)
        d == RMul(delta, I(40))
        best == hunger_effect_loop(1, MaxAmplifier, d,
                    [e |-> 0, s |-> 0, min_error |-> Zero, inf |-> TRUE,
                     done |-> FALSE])
    IN  IF RLe(delta, Zero) THEN <<0, 0>> ELSE <<best.s, best.e>>

\* round(x, 7): to the nearest multiple of 10^-7, ties to the even one
round7(x) ==
    LET whole == Floor(x)
        y == RMul(RSub(x, I(whole)), I(RoundScale))
        f == Floor(y)
        r == RSub(y, I(f))
        k == IF RLt(r, <<1, 2>>) THEN f
             ELSE IF RGt(r, <<1, 2>>) THEN f + 1
             ELSE IF f % 2 = 0 THEN f ELSE f + 1
    IN  RAdd(I(whole), R(k, RoundScale))

\* HungerEffectCost.apply_cost
HungerEffectCost_apply_cost(self, cost_value, resources) ==
    LET resource_hunger == RMax(Zero, hunger_total(resources.hunger))
        target_hunger ==
            RMax(Zero, RSub(resource_hunger, RMul(cost_value, self.rate)))
        paid == RSub(resource_hunger, target_hunger)
        remaining ==
            IF self.pass_strategy = "propagate"
            THEN RSub(cost_value, RDiv(paid, self.rate))
            ELSE cost_value
        effect == calculate_hunger_effect(resource_hunger, target_hunger)
        commands ==
            IF effect # <<0, 0>>
            THEN <<Command("effect give @s minecraft:hunger", <<"true">>,
                           I(effect[1]), effect[2])>>
            ELSE <<>>
        after == [resources EXCEPT
                     !.hunger = hunger_set_total(resources.hunger,
                         RSub(hunger_total(resources.hunger), paid))]
    IN  IF raises_insufficient(self, resource_hunger, target_hunger)
        THEN Raised("InsufficientHungerError",
                    InsufficientError("hunger", resource_hunger, paid, ""),
                    resources_at_raise(resources, after), <<>>)
        ELSE Returned(round7(remaining), commands, after, <<>>)

\* HealthCost is declared without @dataclass: its `rate` and `damage_type`
\* annotations stay class attributes holding dataclasses.Field objects, and
\* its constructor is Cost's, which takes pass_strategy and check_strategy only
HealthCost_rate_is_number == FALSE

\* HealthCost.apply_cost: cost_value * self.rate is the first thing evaluated
HealthCost_apply_cost(self, cost_value, resources) ==
    LET resource_health == resources.health
        target_health == RSub(resource_health, RMul(cost_value, self.rate))
        paid == RSub(resource_health, target_health)
        remaining ==
            IF self.pass_strategy = "propagate"
            THEN RSub(cost_value, RDiv(paid, self.rate))
            ELSE cost_value
    IN  IF ~HealthCost_rate_is_number
        THEN Raised("TypeError", NoErr, resources, <<>>)
        ELSE IF raises_insufficient(self, resource_health, target_health)
        THEN Raised("InsufficientHealthError",
                    InsufficientError("health", resource_health, paid, ""),
                    resources_at_raise(resources,
                        [resources EXCEPT !.health = target_health]),
                    <<>>)
        ELSE Returned(remaining,
                      <<Command("damage @s", <<self.damage_type>>, paid, 0)>>,
                      [resources EXCEPT !.health = target_health], <<>>)

\* CONSUMPTION_TYPES
CONSUMPTION_TYPES ==
    {"experience", "items", "composite", "hunger", "health"}

\* CONSUMPTION_TYPES[cfg["type"]](**get_params(cfg)): "" when the instance is
\* built, otherwise the exception.  cfg.given lists the keys a health
\* configuration has besides type, pass_strategy and check_strategy
instantiate_error(cfg) ==
    IF cfg.type \notin CONSUMPTION_TYPES THEN "KeyError"
    ELSE IF cfg.type = "health" /\ cfg.given # {} THEN "TypeError"
    ELSE ""

RECURSIVE first_instantiate_error(_)
first_instantiate_error(costs) ==
    IF costs = <<>> THEN ""
    ELSE IF instantiate_error(Head(costs)) # ""
    THEN instantiate_error(Head(costs))
    ELSE first_instantiate_error(Tail(costs))

\* one apply_cost call as the caller sees it
Invocation(self, cost_value, before, out) ==
    [self |-> self, cost_value |-> cost_value, before |-> before, out |-> out]

RECURSIVE apply_cost(_, _, _)
RECURSIVE composite_loop(_, _, _)

\* a variant in which only a propagate composite threads the remaining
child_cost_value_by_pass_strategy(self, cost_value, remaining) ==
    IF self.pass_strategy = "propagate" THEN remaining ELSE cost_value

\* the value CompositeCost.apply_cost hands to a child: its local remaining,
\* whatever the composite's own pass_strategy
child_cost_value(self, cost_value, remaining) == remaining

\* a variant in which the composite extends its list at the front
commands_extend_front(commands, cmds) == cmds \o commands

\* commands.extend(cmds) after a child that returned
commands_extend(commands, cmds) == commands \o cmds

\* a variant in which the composite never swallows the error
swallows_never(self, out) == FALSE

\* a variant in which the composite swallows the error even when strict
swallows_when_strict(self, out) == IsInsufficient(out)

\* except InsufficientResourcesError: re-raised when the composite is strict,
\* otherwise swallowed (continue)
swallows(self, out) == IsInsufficient(out) /\ self.check_strategy # "strict"

\* one iteration of the second loop of CompositeCost.apply_cost: out is the
\* outcome of child i; acc = [cost_value, remaining, resources, commands,
\* children, raised, err]
composite_step(self, i, acc, out) ==
    LET node == Invocation(self.costs[i],
                           child_cost_value(self, acc.cost_value,
                                            acc.remaining),
                           acc.resources, out)
    IN  IF out.raised = ""
        THEN composite_loop(self, i + 1,
                [acc EXCEPT !.remaining = out.remaining,
                            !.resources = out.resources,
                            !.commands = commands_extend(acc.commands,
                                                        out.commands),
                            !.children = Append(acc.children, node)])
        ELSE IF swallows(self, out)
        THEN composite_loop(self, i + 1,
                [acc EXCEPT !.resources = out.resources,
                            !.children = Append(acc.children, node)])
        ELSE [acc EXCEPT !.resources = out.resources,
                         !.children = Append(acc.children, node),
                         !.raised = out.raised,
                         !.err = out.err]

\* the second loop of CompositeCost.apply_cost from child i on
composite_loop(self, i, acc) ==
    IF i > Len(self.costs) THEN acc
    ELSE composite_step(self, i, acc,
                        apply_cost(self.costs[i],
                                   child_cost_value(self, acc.cost_value,
                                                    acc.remaining),
                                   acc.resources))

\* the end of CompositeCost.apply_cost: built is the exception of the first
\* loop ("" when every child was instantiated), done the second loop's result
composite_return(self, cost_value, resources, built, done) ==
    IF built # "" THEN Raised(built, NoErr, resources, <<>>)
    ELSE IF done.raised # ""
    THEN Raised(done.raised, done.err, done.resources, done.children)
    ELSE Returned(IF self.pass_strategy = "propagate"
                  THEN done.remaining ELSE cost_value,
                  done.commands, done.resources, done.children)

\* CompositeCost.apply_cost
CompositeCost_apply_cost(self, cost_value, resources) ==
    composite_return(self, cost_value, resources,
        first_instantiate_error(self.costs),
        composite_loop(self, 1,
            [cost_value |-> cost_value, remaining |-> cost_value,
             resources |-> resources, commands |-> <<>>, children |-> <<>>,
             raised |-> "", err |-> NoErr]))

\* cost.apply_cost(cost_value, resources), dispatched on the instance's class
apply_cost(self, cost_value, resources) ==
    CASE self.type = "experience" ->
            ExperienceCost_apply_cost(self, cost_value, resources)
      [] self.type = "items" ->
            ItemValueCost_apply_cost(self, cost_value, resources)
      [] self.type = "hunger" ->
            HungerEffectCost_apply_cost(self, cost_value, resources)
      [] self.type = "health" ->
            HealthCost_apply_cost(self, cost_value, resources)
      [] self.type = "composite" ->
            CompositeCost_apply_cost(self, cost_value, resources)

----------------------------------------------------------------------------
(* Distance and cost calculators: utils.py, distance.py, cost_calculation.py *)

\* float("-inf") and float("inf"): RLt, RMax and RMin order them correctly
NegInf == <<-1, 0>>
PosInf == <<1, 0>>

\* limit_value(val, min_val, max_val, scale)
limit_value(val, min_val, max_val, scale) ==
    RMax(min_val, RMin(max_val, RMul(val, scale)))

\* math.sqrt on the perfect squares, the only arguments the model's positions
\* produce
sqrt(n) == CHOOSE r \in 0..n : r * r = n

\* coordinate_distance of EuclideanDistance, ManhattanDistance,
\* ChebyshevDistance and FixedDistance; coordinates are integer triples
coordinate_distance(self, from_coordinate, to_coordinate) ==
    LET dx == Abs(from_coordinate[1] - to_coordinate[1])
        dy == Abs(from_coordinate[2] - to_coordinate[2])
        dz == Abs(from_coordinate[3] - to_coordinate[3])
        max2(a, b) == IF a < b THEN b ELSE a
    IN  CASE self.type = "euclidean" -> I(sqrt(dx * dx + dy * dy + dz * dz))
          [] self.type = "manhattan" -> I(dx + dy + dz)
          [] self.type = "chebyshev" -> I(max2(dx, max2(dy, dz)))
          [] self.type = "fixed" -> self.distance

\* the local cross_dimensional_cost of DistanceCalculator.calculate: summed
\* from the table (35 per dimension by default) for a change of dimension
cross_dimensional_cost(self, from_position, to_position) ==
    IF from_position.dimension # to_position.dimension
    THEN self.cross_dimensional_cost[from_position.dimension]
         + self.cross_dimensional_cost[to_position.dimension]
    ELSE 0

\* a variant of calculate that folds the cross-dimensional cost into the
\* distance it limits
calculate_with_surcharge(self, from_position, to_position) ==
    limit_value(RAdd(coordinate_distance(self, from_position.coordinate,
                                         to_position.coordinate),
                     I(cross_dimensional_cost(self, from_position,
                                              to_position))),
                self.min_distance, self.max_distance, self.scale)

\* DistanceCalculator.calculate: the value returned is the limited
\* coordinate distance; the cross-dimensional cost is computed and dropped
calculate(self, from_position, to_position) ==
    limit_value(coordinate_distance(self, from_position.coordinate,
                                    to_position.coordinate),
                self.min_distance, self.max_distance, self.scale)

\* base ** distance for a natural exponent
RECURSIVE pow(_, _)
pow(base, n) ==
    IF n = 0 THEN I(1)
    ELSE IF n % 2 = 1 THEN RMul(base, pow(base, n - 1))
    ELSE LET half == pow(base, n \div 2) IN RMul(half, half)

\* the exponent at which a power of two leaves the binary64 range
MaxExponent == 1024

\* base ** distance with a float distance raises OverflowError when the power
\* is at or above 2^MaxExponent (decided here from floor(log2(base)): exact
\* for a base that is a power of two, a sufficient condition for any other)
pow_overflows(base, n) ==
    RGt(base, I(1)) /\ log2_floor(base[1], base[2]) * n >= MaxExponent

\* what compute raises instead of returning: ExponentialCost evaluates the
\* power before limit_value can clamp it
compute_error(self, distance) ==
    IF self.type = "exponential" /\ pow_overflows(self.base, Num(distance))
    THEN "OverflowError" ELSE ""

\* LinearCost.compute and ExponentialCost.compute (distance a natural number
\* in the exponential case), where compute_error is ""
compute(self, distance) ==
    CASE self.type = "linear" ->
            limit_value(RAdd(self.base, RMul(distance, self.scale)),
                        self.min_cost, self.max_cost, I(1))
      [] self.type = "exponential" ->
            limit_value(pow(self.base, Num(distance)),
                        self.min_cost, self.max_cost, self.scale)

DISTANCE_TYPES == {"fixed", "euclidean", "manhattan", "chebyshev"}
COST_TYPES == {"linear", "exponential"}

----------------------------------------------------------------------------
(* Strategy factory: cost_strategy/factory.py *)

\* create_cost_strategy(config): "" when the three instances are built,
\* otherwise the exception of the first lookup or constructor that fails
create_cost_strategy_error(config) ==
    IF config.distance.type \notin DISTANCE_TYPES THEN "KeyError"
    ELSE IF config.cost.type \notin COST_TYPES THEN "KeyError"
    ELSE instantiate_error(config.consumption)

\* no Cost instance: apply_cost was not reached
NoCost == [type |-> "none"]

\* a variant in which calculate_commands passes resource_state itself
applied_object_without_deepcopy == "caller"

\* the object calculate_commands hands to apply_cost:
\* deepcopy(resource_state), a new object, here "copy"; the argument itself
\* is the object "caller"
applied_object == "copy"

\* calculate_commands(start, end, resource_state) of the strategy built from
\* config; consumption is config.consumption with this call's random draws
calculate_commands(config, consumption, start, end, resource_state) ==
    LET distance == calculate(config.distance, start, end)
        cost_value == compute(config.cost, distance)
    IN  IF compute_error(config.cost, distance) # ""
        THEN Invocation(NoCost, Zero, resource_state,
                        Raised(compute_error(config.cost, distance), NoErr,
                               resource_state, <<>>))
        ELSE Invocation(consumption, cost_value, resource_state,
                        apply_cost(consumption, cost_value, resource_state))

----------------------------------------------------------------------------
(* Bounds and inputs *)

\* largest count of a stack in a snapshot
MaxCount == 2
\* largest number of children of a composite
MaxChildren == 2
\* largest experience handed to to_level on its own
MaxPoints == 1700

Checks == {"strict", "lenient"}
Passes == {"pass_through", "propagate"}
Rates == {I(1), <<1, 2>>}
CostValues == {Zero, <<1, 256>>, I(4), I(10), I(13), I(123), I(1000)}

\* ExperienceCost.__post_init__: the weights normalised, or the default when
\* their sum is not positive
post_init_probability(probability) ==
    LET total == probability.points + probability.level
    IN  IF total <= 0 THEN [points |-> <<1, 2>>, level |-> <<1, 2>>]
        ELSE [points |-> R(probability.points, total),
              level |-> R(probability.level, total)]

\* ExperienceCost._select_strategy: the values it can return
select_strategy(self) ==
    IF self.strategy # "random" THEN {self.strategy}
    ELSE {k \in {"points", "level"} :
            RGt(post_init_probability(self.probability)[k], Zero)}

\* the order calculate_combination can use for an ItemConsumeStrategy
select_order(strategy) ==
    IF strategy = "random" THEN {"lower-first", "higher-first"}
    ELSE {strategy}

ExperienceCost(pass_strategy, check_strategy, rate, strategy, probability, draw) ==
    [type |-> "experience", pass_strategy |-> pass_strategy,
     check_strategy |-> check_strategy, rate |-> rate, strategy |-> strategy,
     probability |-> probability, draw |-> draw]

ItemValueCost(pass_strategy, check_strategy, rate, items, strategy, draw) ==
    [type |-> "items", pass_strategy |-> pass_strategy,
     check_strategy |-> check_strategy, rate |-> rate, items |-> items,
     strategy |-> strategy, draw |-> draw]

HungerEffectCost(pass_strategy, check_strategy, rate) ==
    [type |-> "hunger", pass_strategy |-> pass_strategy,
     check_strategy |-> check_strategy, rate |-> rate]

HealthCost(pass_strategy, check_strategy, rate, damage_type, given) ==
    [type |-> "health", pass_strategy |-> pass_strategy,
     check_strategy |-> check_strategy, rate |-> rate,
     damage_type |-> damage_type, given |-> given]

CompositeCost(pass_strategy, check_strategy, costs) ==
    [type |-> "composite", pass_strategy |-> pass_strategy,
     check_strategy |-> check_strategy, costs |-> costs]

DefaultProbability == [points |-> 1, level |-> 1]
Probabilities == {DefaultProbability, [points |-> 0, level |-> 0],
                  [points |-> 1, level |-> 0]}

PriceTable == <<<<"A", I(3)>>, <<"B", I(5)>>>>
PriceTables == {PriceTable, <<<<"B", <<1, 2>>>>, <<"A", Zero>>>>}
\* {"A": 8.2}: a price that is no binary fraction
DecimalPriceTable == <<<<"A", <<41, 5>>>>>>

\* the instances of each leaf class the actions draw, random draws included
ExperienceCosts ==
    UNION {{ExperienceCost(p, c, r, st, pr, d) :
                d \in select_strategy(ExperienceCost(p, c, r, st, pr, ""))} :
           p \in Passes, c \in Checks, r \in Rates,
           st \in {"points", "level", "random"},
           pr \in Probabilities}

\* (the decimal price table with pass_through only: every float operation
\* other than the rounding of total_paid is then exact on these inputs)
ItemValueCosts ==
    UNION {{ItemValueCost(p, c, r, t, st, d) : d \in select_order(st)} :
           p \in Passes, c \in Checks, r \in Rates, t \in PriceTables,
           st \in {"lower-first", "higher-first", "random"}}
    \cup {ItemValueCost("pass_through", c, r, DecimalPriceTable, st, st) :
            c \in Checks, r \in Rates,
            st \in {"lower-first", "higher-first"}}

HungerEffectCosts ==
    {HungerEffectCost(p, c, r) : p \in Passes, c \in Checks, r \in Rates}

HealthCosts ==
    {HealthCost(p, c, I(1), "void", g) :
        p \in Passes, c \in Checks, g \in {{}, {"rate"}}}

\* the children a composite configuration is built from
ChildCosts ==
    LET X(c) == ExperienceCost("propagate", c, I(1), "points",
                               DefaultProbability, "points")
        T == ItemValueCost("propagate", "strict", I(1), PriceTable,
                           "higher-first", "higher-first")
    IN  {X("strict"), X("lenient"), T,
         HungerEffectCost("propagate", "lenient", I(1)),
         HealthCost("pass_through", "lenient", I(1), "void", {}),
         CompositeCost("propagate", "strict", <<X("lenient"), T>>)}

SeqsUpTo(S, n) == UNION {[1..k -> S] : k \in 1..n}

CompositeCosts ==
    {CompositeCost(p, c, costs) :
        p \in Passes, c \in Checks, costs \in SeqsUpTo(ChildCosts, MaxChildren)}

CompositeCostValues == {I(4), I(10)}

\* the snapshots the provider returns
ItemLists ==
    {<<>>}
    \cup {<<Item(a, "A", "")>> : a \in 1..MaxCount}
    \cup {<<Item(MaxCount, "A", ""), Item(b, "B", "")>> : b \in 1..MaxCount}
    \cup {<<Item(0, "B", ""), Item(1, "A", "c"), Item(MaxCount, "A", "")>>}
    \cup {<<Item(10, "A", ""), Item(10, "B", "")>>, <<Item(16, "A", "")>>}
    \cup {<<Item(1, "A", "c"), Item(MaxCount, "A", ""), Item(1, "B", "")>>}

Experiences == {Zero, I(4), I(100)}
\* (the last one is a starving player: its total is -1)
Hungers ==
    {Hunger(I(20), Zero, Zero), Hunger(I(5), I(2), I(4)),
     Hunger(Zero, Zero, I(4))}

\* every inventory with little experience, and every experience and hunger
\* with the fullest two-item inventory
Snapshots ==
    {ResourceState(items, I(4), Hunger(I(20), Zero, Zero), I(20)) :
        items \in ItemLists}
    \cup {ResourceState(<<Item(MaxCount, "A", ""), Item(MaxCount, "B", "")>>,
                        experience, hunger, I(20)) :
            experience \in Experiences, hunger \in Hungers}

\* positions: Position(coordinate, rotation, dimension), the rotation left
\* out since no calculator reads it
Position(coordinate, dimension) ==
    [coordinate |-> coordinate, dimension |-> dimension]

Positions ==
    {Position(<<0, 0, 0>>, "overworld"), Position(<<30, 0, 40>>, "overworld"),
     Position(<<30, 0, 0>>, "the_nether")}

\* defaultdict(lambda: 35)
DefaultCrossDimensionalCost ==
    [d \in {"overworld", "the_nether"} |-> 35]

DistanceCalculator(type, min_distance, max_distance, scale, distance) ==
    [type |-> type, min_distance |-> min_distance,
     max_distance |-> max_distance, scale |-> scale, distance |-> distance,
     cross_dimensional_cost |-> DefaultCrossDimensionalCost]

CostCalculator(type, min_cost, max_cost, scale, base) ==
    [type |-> type, min_cost |-> min_cost, max_cost |-> max_cost,
     scale |-> scale, base |-> base]

PlainCalculators ==
    <<DistanceCalculator("euclidean", NegInf, PosInf, I(1), Zero),
      CostCalculator("linear", NegInf, PosInf, I(1), Zero)>>

\* distance and cost configurations, paired so that an exponential cost gets
\* a small natural distance
Calculators ==
    {PlainCalculators,
     <<DistanceCalculator("manhattan", I(2), I(10), <<1, 2>>, Zero),
       CostCalculator("linear", Zero, I(13), I(2), I(1))>>,
     <<DistanceCalculator("chebyshev", NegInf, I(6), I(1), Zero),
       CostCalculator("exponential", NegInf, PosInf, <<1, 2>>, I(2))>>,
     <<DistanceCalculator("fixed", NegInf, PosInf, I(1), I(3)),
       CostCalculator("exponential", NegInf, I(4), I(1), I(2))>>}

\* consumption configurations of the factory, before any random draw
Consumptions ==
    LET X(c, st) == ExperienceCost("propagate", c, I(1), st,
                                   DefaultProbability, "")
        T(c) == ItemValueCost("propagate", c, I(1), PriceTable, "random", "")
    IN  {X("strict", "points"), X("lenient", "random"), T("strict"),
         T("lenient"),
         HungerEffectCost("pass_through", "strict", <<1, 2>>),
         HealthCost("pass_through", "strict", I(1), "void", {}),
         HealthCost("pass_through", "strict", I(1), "void", {"rate"}),
         CompositeCost("propagate", "lenient",
                       <<X("strict", "points"), T("strict")>>),
         CompositeCost("propagate", "strict",
                       <<X("lenient", "level"),
                         HungerEffectCost("propagate", "lenient", I(1)),
                         T("strict")>>)}

\* every consumption behind the plain pipeline, and every pipeline in front
\* of the experience and the item consumption
Config(c, k) == [distance |-> c[1], cost |-> c[2], consumption |-> k]

\* configurations with a type tag no registry knows: in distance, in cost,
\* in consumption, and in a child of a composite
UnknownConfigs ==
    LET X == ExperienceCost("propagate", "lenient", I(1), "points",
                            DefaultProbability, "")
    IN  {Config(<<[PlainCalculators[1] EXCEPT !.type = "unknown"],
                  PlainCalculators[2]>>, X),
         Config(<<PlainCalculators[1],
                  [PlainCalculators[2] EXCEPT !.type = "unknown"]>>, X),
         Config(PlainCalculators, [type |-> "unknown"]),
         Config(PlainCalculators,
                CompositeCost("propagate", "strict",
                              <<X, [type |-> "unknown"]>>))}

Configs ==
    {Config(PlainCalculators, k) : k \in Consumptions}
    \cup UnknownConfigs
    \cup {Config(c, k) :
            c \in Calculators,
            k \in {ExperienceCost("propagate", "strict", I(1), "points",
                                  DefaultProbability, ""),
                   ItemValueCost("propagate", "lenient", I(1), PriceTable,
                                 "random", "")}}

\* the instances one call can work with: the configuration with each random
\* choice of the call drawn
RECURSIVE Draws(_)
Draws(cfg) ==
    CASE cfg.type = "experience" ->
            {[cfg EXCEPT !.draw = d] : d \in select_strategy(cfg)}
      [] cfg.type = "items" ->
            {[cfg EXCEPT !.draw = d] : d \in select_order(cfg.strategy)}
      [] cfg.type = "composite" ->
            {[cfg EXCEPT !.costs = costs] :
                costs \in {f \in [DOMAIN cfg.costs ->
                                    UNION {Draws(cfg.costs[i]) :
                                             i \in DOMAIN cfg.costs}] :
                             \A i \in DOMAIN cfg.costs :
                                f[i] \in Draws(cfg.costs[i])}}
      [] OTHER -> {cfg}

----------------------------------------------------------------------------
(* State *)

VARIABLES
    resources, \* the caller's ResourceState object
    fresh,     \* the snapshot has not been handed to apply_cost yet
    strategy,  \* the configuration of the strategy create_cost_strategy built
    last,      \* the last operation: its name, the apply_cost call it made
               \* and the exception of a failed build
    server,    \* the commands handed to h.server.execute, in order
    HOMES,     \* dict[player, dict[home name, Position]]
    replies,   \* per handler thread, the keys of the texts of source.reply
    threads    \* per handler thread (@new_thread), its frame

plugin == <<server, HOMES, replies, threads>>

vars == <<resources, fresh, strategy, last, server, HOMES, replies, threads>>

\* the handler threads, and a thread that has not been started
Threads == {1, 2}

\* {} of a dict, d.get(k, {}) of a dict of dicts, and d[k] = v
EmptyDict == [k \in {} |-> k]

dict_get(d, k) == IF k \in DOMAIN d THEN d[k] ELSE EmptyDict

dict_set(d, k, v) == [x \in DOMAIN d \cup {k} |-> IF x = k THEN v ELSE d[x]]

Idle == [handler |-> "", pc |-> "idle"]


\* the plugin right after on_load: nothing sent, no home, no handler running
PluginLoaded ==
    /\ server = <<>>
    /\ HOMES = EmptyDict
    /\ replies = [t \in Threads |-> <<>>]
    /\ threads = [t \in Threads |-> Idle]

NoStrategy == [built |-> FALSE]

NoCall(r) ==
    Invocation(NoCost, Zero, r, Returned(Zero, <<>>, r, <<>>))

Operation(op, call, error) == [op |-> op, call |-> call, error |-> error]

Init ==
    /\ resources \in Snapshots
    /\ fresh = TRUE
    /\ strategy = NoStrategy
    /\ last = Operation("snapshot", NoCall(resources), "")
    /\ PluginLoaded

\* the snapshot provider returns a new ResourceState for the next request
Snapshot ==
    /\ \E r \in Snapshots :
          /\ resources' = r
          /\ last' = Operation("snapshot", NoCall(r), "")
    /\ fresh' = TRUE
    /\ UNCHANGED <<strategy, plugin>>

\* self.apply_cost(cost_value, resources) on the caller's object, in place;
\* out is that call's outcome
Apply(self, cost_value, out) ==
    /\ fresh
    /\ resources' = out.resources
    /\ last' = Operation("apply_cost",
                         Invocation(self, cost_value, resources, out), "")
    /\ fresh' = FALSE
    /\ UNCHANGED <<strategy, plugin>>

ApplyExperience ==
    \E self \in ExperienceCosts, cost_value \in CostValues :
        Apply(self, cost_value,
              ExperienceCost_apply_cost(self, cost_value, resources))

ApplyItems ==
    \E self \in ItemValueCosts, cost_value \in CostValues :
        Apply(self, cost_value,
              ItemValueCost_apply_cost(self, cost_value, resources))

ApplyHunger ==
    \E self \in HungerEffectCosts, cost_value \in CostValues :
        Apply(self, cost_value,
              HungerEffectCost_apply_cost(self, cost_value, resources))

\* HealthCost(**params) for a configuration without extra keys, then apply_cost
ApplyHealth ==
    \E self \in HealthCosts, cost_value \in CostValues :
        /\ instantiate_error(self) = ""
        /\ Apply(self, cost_value,
                 HealthCost_apply_cost(self, cost_value, resources))

ApplyComposite ==
    \E self \in CompositeCosts, cost_value \in CompositeCostValues :
        Apply(self, cost_value,
              CompositeCost_apply_cost(self, cost_value, resources))

\* create_cost_strategy(config): the strategy is kept when the build succeeds
CreateCostStrategy ==
    \E config \in Configs :
        /\ strategy' = IF create_cost_strategy_error(config) = ""
                       THEN [built |-> TRUE, config |-> config]
                       ELSE strategy
        /\ last' = Operation("create_cost_strategy", NoCall(resources),
                             create_cost_strategy_error(config))
        /\ UNCHANGED <<resources, fresh, plugin>>

\* strategy(start, end, resources) with the caller's snapshot; call is what
\* calculate_commands did.  apply_cost mutates the object it was handed
Call(call) ==
    /\ resources' = IF applied_object = "caller" THEN call.out.resources
                    ELSE resources
    /\ last' = Operation("calculate_commands", call, "")
    /\ UNCHANGED <<fresh, strategy, plugin>>

CalculateCommands ==
    /\ strategy.built
    /\ \E start \in Positions, end \in Positions,
          consumption \in Draws(strategy.config.consumption) :
            Call(calculate_commands(strategy.config, consumption, start, end,
                                    resources))

Next ==
    \/ Snapshot
    \/ ApplyExperience
    \/ ApplyItems
    \/ ApplyHunger
    \/ ApplyHealth
    \/ ApplyComposite

Spec == Init /\ [][Next]_vars

NextFactory ==
    \/ Snapshot
    \/ CreateCostStrategy
    \/ CalculateCommands

SpecFactory == Init /\ [][NextFactory]_vars

\* one call of a function of utils.py, distance.py or cost_calculation.py on
\* its own: the arguments and what came back
Evaluation(args, result) == [args |-> args, result |-> result]

\* a player with nothing but a hunger bar
InitUtils ==
    /\ resources \in {ResourceState(<<>>, Zero, hunger, I(20)) :
                         hunger \in Hungers}
    /\ fresh = TRUE
    /\ strategy = NoStrategy
    /\ last = Operation("snapshot", NoCall(resources), "")
    /\ PluginLoaded

\* Experience(p).to_level(), a pure function evaluated once in a behaviour
ToLevel ==
    /\ last.op = "snapshot"
    /\ \E p \in 0..MaxPoints :
          last' = Operation("to_level",
                            Evaluation(<<I(p)>>, to_level(I(p))), "")
    /\ UNCHANGED <<resources, fresh, strategy, plugin>>

\* positions for the calculators on their own, a far one among them
UtilPositions ==
    {Position(<<0, 0, 0>>, "overworld"), Position(<<30, 0, 40>>, "overworld"),
     Position(<<300, 0, 400>>, "the_nether")}

\* limits with min <= max, and scales
Limits == {<<NegInf, PosInf>>, <<I(2), I(10)>>, <<Zero, I(6)>>, <<I(4), I(4)>>}
Scales == {<<1, 2>>, I(1), I(2)}

DistanceCalculators ==
    {DistanceCalculator(type, l[1], l[2], scale, distance) :
        type \in DISTANCE_TYPES, l \in Limits, scale \in Scales,
        distance \in {Zero, I(3), I(100)}}

\* an exponential cost has a natural base, a linear cost any base
CostCalculators ==
    {CostCalculator("linear", l[1], l[2], scale, base) :
        l \in Limits, scale \in Scales, base \in {Zero, I(1), <<-7, 2>>}}
    \cup {CostCalculator("exponential", l[1], l[2], scale, base) :
            l \in Limits, scale \in Scales, base \in {I(1), I(2)}}

\* distances handed to compute, the last beyond the range of 2 ** distance
Distances == {Zero, I(3), I(6), I(MaxExponent)}

\* DistanceCalculator.calculate, a pure function evaluated once in a behaviour
Calculate ==
    /\ last.op = "snapshot"
    /\ \E self \in DistanceCalculators,
          from_position \in UtilPositions, to_position \in UtilPositions :
          last' = Operation("calculate",
                            Evaluation(<<self, from_position, to_position>>,
                                       calculate(self, from_position,
                                                 to_position)), "")
    /\ UNCHANGED <<resources, fresh, strategy, plugin>>

\* CostCalculator.compute, a pure function evaluated once in a behaviour
Compute ==
    /\ last.op = "snapshot"
    /\ \E self \in CostCalculators, distance \in Distances :
          last' = Operation("compute",
                            Evaluation(<<self, distance>>,
                                       IF compute_error(self, distance) = ""
                                       THEN compute(self, distance)
                                       ELSE Zero),
                            compute_error(self, distance))
    /\ UNCHANGED <<resources, fresh, strategy, plugin>>

\* values assigned to Hunger.total
Totals == {I(-10), Zero, <<13, 2>>, I(15), I(20), I(25), I(45)}

\* resources.hunger.total = value, in place, any number of times
SetTotal ==
    /\ \E value \in Totals :
          /\ resources' = [resources EXCEPT
                              !.hunger = hunger_set_total(@, value)]
          /\ last' = Operation("total",
                               Evaluation(<<resources.hunger, value>>,
                                          resources'.hunger), "")
    /\ UNCHANGED <<fresh, strategy, plugin>>

\* food and target levels handed to calculate_hunger_effect
FoodLevels == {Zero, <<1, 16>>, <<1, 2>>, I(5), <<13, 2>>, I(20), <<263, 8>>}

\* calculate_hunger_effect, a pure function evaluated once in a behaviour
CalculateHungerEffect ==
    /\ last.op = "snapshot"
    /\ \E food_level \in FoodLevels, target_level \in FoodLevels :
          last' = Operation("calculate_hunger_effect",
                            Evaluation(<<food_level, target_level>>,
                                       calculate_hunger_effect(food_level,
                                                               target_level)),
                            "")
    /\ UNCHANGED <<resources, fresh, strategy, plugin>>

NextUtils ==
    \/ ToLevel
    \/ CalculateHungerEffect
    \/ SetTotal
    \/ Calculate
    \/ Compute

SpecUtils == InitUtils /\ [][NextUtils]_vars

----------------------------------------------------------------------------
(* Command handlers *)

\* Config.SetHome.DefaultHomeName, Config.SetHomeWithName.MaximumHomes and
\* Config.SpawnPoint of the configuration the plugin was loaded with
DefaultHomeName == "home"
MaximumHomes == 1
SpawnPoint == Position(<<0, 0, 0>>, "overworld")

\* context.get(name) of an argument that was not given, and the return value
\* of get_resource_state and get_label_value when there is nothing
None == [none |-> TRUE]

\* context.get(name) of an argument that was given
Arg(value) == [value |-> value]

\* the key None of HOMES: the labels that belong to no player
NoPlayer == "None"

\* ResourceState as plugins_api.py declares it: items and experience only
DeclaredResourceState(items, experience) ==
    [items |-> items, experience |-> experience]

\* a resource state with every attribute the handlers and the strategy read:
\* those of ResourceState in cost_strategy/utils.py, and position
PositionedResourceState(r, position) ==
    [items |-> r.items, experience |-> r.experience, hunger |-> r.hunger,
     health |-> r.health, position |-> position]

\* hasattr(obj, name)
hasattr(obj, name) == name \in DOMAIN obj

\* the frame of a handler: its locals, the outcome of its strategy call, the
\* commands handed to execute_commands and how many of them were executed
Frame(handler, player, is_with_name, home_name, to) ==
    [handler |-> handler, pc |-> "done", player |-> player,
     is_with_name |-> is_with_name, home_name |-> home_name, to |-> to,
     position |-> None, called |-> FALSE, call |-> None, commands |-> <<>>,
     sent |-> 0]

\* a handler's frame after a step, with the text that step replied
Outcome(frame, reply) == [frame |-> frame, reply |-> reply]

Reply(key) == [key |-> key]

\* suppress: the reply to an exception that leaves the wrapped handler
suppress(raised, err) ==
    IF raised \in InsufficientNames
    THEN [key |-> "message.failure.cost", resource_type |-> err.resource_type,
          available |-> err.available, required |-> err.required]
    ELSE Reply("message.failure.unknown")

\* a variant of the strategy call whose exception does not leave the handler
charge_ignoring_exception(frame, call) ==
    Outcome([frame EXCEPT !.pc = "execute", !.called = TRUE, !.call = call,
                          !.commands = call.out.commands], None)

\* commands = cost_strategy(start, end, player_state) inside a handler wrapped
\* by suppress: the commands go on to execute_commands, an exception ends the
\* handler with the reply of suppress
charge(frame, call) ==
    IF call.out.raised = ""
    THEN Outcome([frame EXCEPT !.pc = "execute", !.called = TRUE,
                               !.call = call,
                               !.commands = call.out.commands], None)
    ELSE Outcome([frame EXCEPT !.called = TRUE, !.call = call],
                 suppress(call.out.raised, call.out.err))

\* reading resources.position (and end.position) and then calling the
\* strategy: an object without the attribute raises AttributeError first
charge_at(frame, config, consumption, start, end, player_state) ==
    IF \E obj \in {start, end} : ~hasattr(obj, "position")
    THEN Outcome(frame, suppress("AttributeError", NoErr))
    ELSE charge([frame EXCEPT !.position = player_state.position],
                calculate_commands(config, consumption, start.position,
                                   end.position, player_state))

\* tp2home up to execute_commands; home is context.get("home"), first is
\* next(iter(homes)), player_state what get_resource_state returned
tp2home(config, consumption, player, home, first, player_state) ==
    LET is_with_name == home # None
        homes == DOMAIN dict_get(HOMES, NoPlayer)
                     \cup DOMAIN dict_get(HOMES, player)
        home_name ==
            IF ~is_with_name /\ DefaultHomeName \in homes
            THEN DefaultHomeName
            ELSE IF is_with_name THEN home.value ELSE first
        labels == dict_get(HOMES, player)
        position == IF home_name \in DOMAIN labels THEN labels[home_name]
                    ELSE None
        frame == Frame("tp2home", player, is_with_name, home_name, position)
    IN  IF homes = {} \/ position = None
        THEN Outcome(frame, Reply("message.failure.argument.not_found.home"))
        ELSE IF player_state = None
        THEN Outcome(frame, Reply("message.failure.unknown"))
        ELSE charge_at(frame, config, consumption, player_state,
                       [position |-> position], player_state)

\* set_home up to execute_commands; new_home is context.get("new-home")
set_home(config, consumption, player, new_home, player_state) ==
    LET is_with_name == new_home # None
        home_name == IF is_with_name THEN new_home.value
                     ELSE DefaultHomeName
        has_home == home_name \in DOMAIN dict_get(HOMES, NoPlayer)
                                   \cup DOMAIN dict_get(HOMES, player)
        is_maximum == Cardinality(DOMAIN dict_get(HOMES, player))
                          >= MaximumHomes
        frame == Frame("set_home", player, is_with_name, home_name, None)
    IN  IF is_with_name /\ is_maximum /\ ~has_home
        THEN Outcome(frame, Reply("message.failure.too_many_homes"))
        ELSE IF player_state = None
        THEN Outcome(frame, Reply("message.failure.unknown"))
        ELSE charge_at(frame, config, consumption, [position |-> SpawnPoint],
                       player_state, player_state)

\* tp_player2player up to execute_commands, called by tp2player under
\* suppress; end and player_state are what get_resource_state returned for the
\* target and for the player
tp_player2player(config, consumption, player, target, end, player_state) ==
    LET frame == Frame("tp_player2player", player, FALSE, None, target)
    IN  IF player = target
        THEN Outcome(frame, Reply("message.failure.tp_self"))
        ELSE IF end = None \/ player_state = None
        THEN Outcome(frame, Reply("message.failure.unknown"))
        ELSE charge_at(frame, config, consumption, player_state, end,
                       player_state)

\* the translate_key of the reply that ends a handler
success_key(frame) ==
    CASE frame.handler = "tp_player2player" -> "message.success.to_player"
      [] frame.handler = "tp2home" ->
            IF frame.is_with_name THEN "message.success.to_home_with_name"
            ELSE "message.success.to_home"
      [] frame.handler = "set_home" ->
            IF frame.is_with_name THEN "message.success.set_home_with_name"
            ELSE "message.success.set_home"

\* a variant of the loop test that lets the handler go on at once
execute_commands_done_at_once(frame) == TRUE

\* execute_commands: the loop over the commands has come to its end
execute_commands_done(frame) == frame.sent = Len(frame.commands)

\* the players, the home arguments, and what get_resource_state returns: None,
\* a ResourceState as plugins_api.py declares it, or one with every attribute
\* that is read, for a rich and for a poor player at either position
Players == {"Steve", "Alex"}
HomeArgs == {None, Arg(DefaultHomeName), Arg("base")}

HandlerStates ==
    {ResourceState(<<Item(MaxCount, "A", ""), Item(MaxCount, "B", "")>>,
                   I(100), Hunger(I(20), Zero, Zero), I(20)),
     ResourceState(<<>>, I(4), Hunger(I(20), Zero, Zero), I(20))}

PlayerStates ==
    {None, DeclaredResourceState(<<>>, I(4))}
    \cup {PositionedResourceState(r, p) :
            r \in HandlerStates,
            p \in {SpawnPoint, Position(<<0, 0, 8>>, "overworld")}}

\* the global cost_strategy of the configuration: strict experience, strict
\* items and lenient items behind the plain pipeline
HandlerConfigs ==
    {Config(PlainCalculators, k) :
        k \in {ExperienceCost("propagate", "strict", I(1), "points",
                              DefaultProbability, ""),
               ItemValueCost("propagate", "strict", I(1), PriceTable,
                             "higher-first", ""),
               ItemValueCost("propagate", "lenient", I(1), PriceTable,
                             "lower-first", "")}}

InitHandlers ==
    /\ resources = ResourceState(<<>>, Zero, Hunger(I(20), Zero, Zero), I(20))
    /\ fresh = TRUE
    /\ strategy = NoStrategy
    /\ last = Operation("snapshot", NoCall(resources), "")
    /\ PluginLoaded

\* on_load: Config.initialize builds the cost strategy of the configuration
OnLoad ==
    /\ ~strategy.built
    /\ \E config \in HandlerConfigs :
          /\ create_cost_strategy_error(config) = ""
          /\ strategy' = [built |-> TRUE, config |-> config]
    /\ last' = Operation("on_load", NoCall(resources), "")
    /\ UNCHANGED <<resources, fresh, plugin>>

\* a command starts its handler in a new thread, which runs up to
\* execute_commands or to its return
Start(t, outcome) ==
    /\ threads[t].pc = "idle"
    /\ threads' = [threads EXCEPT ![t] = outcome.frame]
    /\ replies' = IF outcome.reply = None THEN replies
                  ELSE [replies EXCEPT ![t] = Append(@, outcome.reply)]
    /\ UNCHANGED <<resources, fresh, strategy, last, server, HOMES>>

Tp2Player ==
    /\ strategy.built
    /\ \E t \in Threads, target \in Players,
          end \in PlayerStates, player_state \in PlayerStates,
          consumption \in Draws(strategy.config.consumption) :
            Start(t, tp_player2player(strategy.config, consumption, "Steve",
                                      target, end, player_state))

Tp2Home ==
    /\ strategy.built
    /\ \E t \in Threads, home \in HomeArgs, player_state \in PlayerStates,
          first \in DOMAIN dict_get(HOMES, "Steve") \cup {DefaultHomeName},
          consumption \in Draws(strategy.config.consumption) :
            Start(t, tp2home(strategy.config, consumption, "Steve", home,
                             first, player_state))

SetHome ==
    /\ strategy.built
    /\ \E t \in Threads, new_home \in HomeArgs, player_state \in PlayerStates,
          consumption \in Draws(strategy.config.consumption) :
            Start(t, set_home(strategy.config, consumption, "Steve", new_home,
                              player_state))

\* execute_commands: one pass of the loop, one command to the server
ExecuteCommands ==
    \E t \in Threads :
        /\ threads[t].pc = "execute"
        /\ ~execute_commands_done(threads[t])
        /\ threads[t].sent < Len(threads[t].commands)
        /\ server' = Append(server,
                            [thread |-> t, cmd |-> "execute as",
                             player |-> threads[t].player,
                             run |-> threads[t].commands[threads[t].sent + 1]])
        /\ threads' = [threads EXCEPT ![t].sent = @ + 1]
        /\ UNCHANGED <<resources, fresh, strategy, last, HOMES, replies>>

\* tp2home and tp_player2player after execute_commands: the teleport command
\* and the reply
Teleport ==
    \E t \in Threads :
        /\ threads[t].pc = "execute"
        /\ threads[t].handler \in {"tp2home", "tp_player2player"}
        /\ execute_commands_done(threads[t])
        /\ server' = Append(server,
                            [thread |-> t, cmd |-> "tp",
                             player |-> threads[t].player,
                             to |-> threads[t].to])
        /\ replies' = [replies EXCEPT ![t] =
                          Append(@, Reply(success_key(threads[t])))]
        /\ threads' = [threads EXCEPT ![t].pc = "done"]
        /\ UNCHANGED <<resources, fresh, strategy, last, HOMES>>

\* set_home after execute_commands: the home is stored, then the reply
StoreHome ==
    \E t \in Threads :
        /\ threads[t].pc = "execute"
        /\ threads[t].handler = "set_home"
        /\ execute_commands_done(threads[t])
        /\ HOMES' = dict_set(HOMES, threads[t].player,
                             dict_set(dict_get(HOMES, threads[t].player),
                                      threads[t].home_name,
                                      threads[t].position))
        /\ replies' = [replies EXCEPT ![t] =
                          Append(@, Reply(success_key(threads[t])))]
        /\ threads' = [threads EXCEPT ![t].pc = "done"]
        /\ UNCHANGED <<resources, fresh, strategy, last, server>>

NextHandlers ==
    \/ OnLoad
    \/ Tp2Player
    \/ Tp2Home
    \/ SetHome
    \/ ExecuteCommands
    \/ Teleport
    \/ StoreHome

SpecHandlers == InitHandlers /\ [][NextHandlers]_vars

----------------------------------------------------------------------------
(* Properties *)

\* every apply_cost call of the last operation: the top one and, below a
\* composite, those of its children
RECURSIVE Nodes(_)
Nodes(call) ==
    {call} \cup UNION {Nodes(call.out.children[i]) :
                         i \in DOMAIN call.out.children}

LeafTypes == {"experience", "items", "hunger", "health"}

LeafCalls == {n \in Nodes(last.call) : n.self.type \in LeafTypes}
CompositeCalls == {n \in Nodes(last.call) : n.self.type = "composite"}

InsufficientName(type) ==
    CASE type = "experience" -> "InsufficientExperienceError"
      [] type = "items" -> "InsufficientItemsError"
      [] type = "hunger" -> "InsufficientHungerError"
      [] type = "health" -> "InsufficientHealthError"

\* the value of the stacks a price table prices above zero
RECURSIVE ItemsValue(_, _)
ItemsValue(items, table) ==
    IF items = <<>> THEN Zero
    ELSE LET priced == {j \in DOMAIN table : table[j][1] = Head(items).id
                                              /\ RGt(table[j][2], Zero)}
         IN  RAdd(IF priced = {} THEN Zero
                  ELSE RMul(I(Head(items).count),
                            Price(table, Head(items).id)),
                  ItemsValue(Tail(items), table))

\* experience counted in levels: whole levels plus the started one
Levels(points) ==
    LET level == to_level(points)
    IN  RAdd(I(level[1]), RDiv(level[2], I(from_level(level[1] + 1))))

\* what a leaf's resource holds in a state, in the unit the leaf charges
Pool(self, state) ==
    CASE self.type = "experience" ->
            IF self.draw = "points" THEN state.experience
            ELSE Levels(state.experience)
      [] self.type = "items" -> ItemsValue(state.items, self.items)
      [] self.type = "hunger" -> RMax(Zero, hunger_total(state.hunger))
      [] self.type = "health" -> state.health

\* the requested value cost_value * rate of a leaf call
Required(n) == RMul(n.cost_value, n.self.rate)

\* what a leaf call took out of its resource
Paid(n) == RSub(Pool(n.self, n.before), Pool(n.self, n.out.resources))

AllCountsNatural(items) == \A j \in DOMAIN items : items[j].count >= 0

\* C1: a call of the strategy built by create_cost_strategy leaves the
\* caller's ResourceState as it was, whether the call returns commands or
\* raises, however often it is repeated.
C1_CallerStateUnchanged ==
    [][last'.op = "calculate_commands" => resources' = resources]_vars

\* C1 witness: a call that failed after its private copy had been charged
C1_Witness ==
    /\ last.op = "calculate_commands"
    /\ IsInsufficient(last.call.out)
    /\ last.call.out.resources # resources

\* C2: a strict leaf whose pool cannot cover cost_value * rate raises the
\* insufficiency error of its resource type.
C2_StrictShortfallRaises ==
    \A n \in LeafCalls :
        (n.self.check_strategy = "strict"
         /\ RLt(Pool(n.self, n.before), Required(n)))
        => n.out.raised = InsufficientName(n.self.type)

\* C3: when a leaf raises an insufficiency error the ResourceState it was
\* given is unchanged and the leaf produced no command.
C3_RaiseLeavesStateUnchanged ==
    \A n \in LeafCalls :
        IsInsufficient(n.out)
        => /\ n.out.resources = n.before
           /\ n.out.commands = <<>>

\* C3 witness: a leaf raised on a state that a sibling had already charged
C3_Witness ==
    \E n \in LeafCalls :
        /\ IsInsufficient(n.out)
        /\ n.before # last.call.before

\* C4: a lenient leaf pays only what is available: no pool that was not
\* negative goes below zero, and the command takes no more than was there.
C4_LenientNeverOverdraws ==
    \A n \in LeafCalls :
        (n.self.check_strategy = "lenient" /\ n.out.raised = "")
        => /\ RGe(n.before.experience, Zero)
                => RGe(n.out.resources.experience, Zero)
           /\ AllCountsNatural(n.out.resources.items)
           /\ RGe(hunger_total(n.before.hunger), Zero)
                => RGe(hunger_total(n.out.resources.hunger), Zero)
           /\ RGe(n.before.health, Zero) => RGe(n.out.resources.health, Zero)
           /\ (n.self.type = "experience" /\ n.self.draw = "points"
               /\ RGe(n.before.experience, Zero))
                => RLe(RNeg(n.out.commands[1].amount), n.before.experience)

\* C5: with check_strategy = lenient no leaf raises an insufficiency error.
C5_LenientNeverRaises ==
    \A n \in LeafCalls :
        n.self.check_strategy = "lenient" => ~IsInsufficient(n.out)

\* C5 witness: a lenient leaf returned although its pool was short
C5_Witness ==
    \E n \in LeafCalls :
        /\ n.self.check_strategy = "lenient"
        /\ n.self.type # "health"
        /\ RLt(Pool(n.self, n.before), Required(n))
        /\ n.out.raised = ""

\* C6: a propagate leaf returns cost_value minus what this call paid, the
\* amount taken out of the pool divided by rate.
C6_PropagateReturnsUnpaid ==
    \A n \in LeafCalls :
        (n.self.pass_strategy = "propagate" /\ n.out.raised = "")
        => n.out.remaining
             = RSub(n.cost_value, RDiv(Paid(n), n.self.rate))

\* C7: a pass_through strategy, leaf or composite, returns as remaining
\* exactly the cost_value it was called with.
C7_PassThroughReturnsCostValue ==
    \A n \in Nodes(last.call) :
        (n.self.type # "none" /\ n.self.pass_strategy = "pass_through"
         /\ n.out.raised = "")
        => n.out.remaining = n.cost_value

\* the cost units the children before child i of a composite call paid
RECURSIVE PaidBefore(_, _)
PaidBefore(children, i) ==
    IF i <= 1 THEN Zero
    ELSE RAdd(PaidBefore(children, i - 1),
              IF children[i - 1].out.raised = ""
              THEN RDiv(Paid(children[i - 1]), children[i - 1].self.rate)
              ELSE Zero)

PropagateLeaves(children) ==
    \A i \in DOMAIN children :
        /\ children[i].self.type \in LeafTypes \ {"health"}
        /\ children[i].self.pass_strategy = "propagate"

\* C8: in a propagate composite of propagate leaves each child is charged the
\* composite's cost_value minus what the children before it paid.
C8_ChildChargedUnpaidBalance ==
    \A n \in CompositeCalls :
        (n.self.pass_strategy = "propagate" /\ PropagateLeaves(n.out.children))
        => \A i \in DOMAIN n.out.children :
              n.out.children[i].cost_value
                = RSub(n.cost_value, PaidBefore(n.out.children, i))

\* C9: in a composite whose own pass_strategy is pass_through every child is
\* invoked with the composite's original cost_value.
C9_PassThroughCompositeChargesOriginal ==
    \A n \in CompositeCalls :
        n.self.pass_strategy = "pass_through"
        => \A i \in DOMAIN n.out.children :
              n.out.children[i].cost_value = n.cost_value

\* the remaining a composite holds when it reaches child i: what the last
\* child before i that returned gave back, the cost_value when there is none
RECURSIVE Threaded(_, _, _)
Threaded(cost_value, children, i) ==
    IF i <= 1 THEN cost_value
    ELSE IF children[i - 1].out.raised = ""
    THEN children[i - 1].out.remaining
    ELSE Threaded(cost_value, children, i - 1)

\* C9 as amended: a composite, pass_through or propagate, invokes each child
\* with the remaining returned by the last child before it that completed
\* (its own cost_value for the first); its own pass_strategy decides only
\* what it returns: that remaining (propagate) or its cost_value.
C9_CompositeThreadsRemaining ==
    \A n \in CompositeCalls :
        /\ \A i \in DOMAIN n.out.children :
              n.out.children[i].cost_value
                = Threaded(n.cost_value, n.out.children, i)
        /\ n.out.raised = ""
           => n.out.remaining
                = IF n.self.pass_strategy = "propagate"
                  THEN Threaded(n.cost_value, n.out.children,
                                Len(n.out.children) + 1)
                  ELSE n.cost_value

\* C9 witness: a pass_through composite whose second child was charged less
\* than the composite
C9_Witness ==
    \E n \in CompositeCalls :
        /\ n.self.pass_strategy = "pass_through"
        /\ Len(n.out.children) = 2
        /\ n.out.children[2].cost_value # n.cost_value
        /\ n.out.raised = ""

\* C10: in a strict composite the first child that raises an insufficiency
\* error ends the evaluation: the composite raises that error unchanged, no
\* later child is applied, so nothing is deducted or commanded after it.
C10_StrictCompositeStopsAtFirstFailure ==
    \A n \in CompositeCalls :
        n.self.check_strategy = "strict"
        => \A i \in DOMAIN n.out.children :
              IsInsufficient(n.out.children[i].out)
              => /\ i = Len(n.out.children)
                 /\ n.out.raised = n.out.children[i].out.raised
                 /\ n.out.err = n.out.children[i].out.err
                 /\ n.out.resources = n.out.children[i].out.resources
                 /\ n.out.commands = <<>>

\* C10 witness: a strict composite of two children stopped at its first
C10_Witness ==
    \E n \in CompositeCalls :
        /\ n.self.check_strategy = "strict"
        /\ Len(n.self.costs) = 2
        /\ Len(n.out.children) = 1
        /\ IsInsufficient(n.out.children[1].out)

\* C11: in a lenient composite a child's insufficiency error is swallowed:
\* the composite raises no insufficiency error, the next configured child is
\* invoked, and it is charged what the failed child was charged.
C11_LenientCompositeSwallows ==
    \A n \in CompositeCalls :
        n.self.check_strategy = "lenient"
        => /\ ~IsInsufficient(n.out)
           /\ \A i \in DOMAIN n.out.children :
                 (IsInsufficient(n.out.children[i].out)
                  /\ i < Len(n.self.costs))
                 => /\ i < Len(n.out.children)
                    /\ n.out.children[i + 1].self = n.self.costs[i + 1]
                    /\ n.out.children[i + 1].cost_value
                         = n.out.children[i].cost_value

\* C11 witness: a lenient composite whose first child failed after being
\* charged, whose second child then paid, and which returned
C11_Witness ==
    \E n \in CompositeCalls :
        /\ n.self.check_strategy = "lenient"
        /\ Len(n.out.children) = 2
        /\ IsInsufficient(n.out.children[1].out)
        /\ n.out.children[2].out.raised = ""
        /\ n.out.children[2].out.commands # <<>>
        /\ n.out.raised = ""

\* the commands of the children that returned, in their order
RECURSIVE CompletedCommands(_)
CompletedCommands(children) ==
    IF children = <<>> THEN <<>>
    ELSE (IF Head(children).out.raised = "" THEN Head(children).out.commands
          ELSE <<>>) \o CompletedCommands(Tail(children))

\* C12: the command list a composite returns is the concatenation, in child
\* order, of the command lists of exactly the children that returned.
C12_CommandsConcatenated ==
    \A n \in CompositeCalls :
        n.out.raised = ""
        => n.out.commands = CompletedCommands(n.out.children)

\* C12 witness: a composite returned the differing commands of two children
C12_Witness ==
    \E n \in CompositeCalls :
        /\ n.out.raised = ""
        /\ Len(n.out.children) = 2
        /\ n.out.children[1].out.commands # <<>>
        /\ n.out.children[2].out.commands # <<>>
        /\ n.out.children[1].out.commands # n.out.children[2].out.commands

\* C13: whenever the value of the player's priced items (count x price over
\* the table's items with a price above zero) is at least cost_value * rate,
\* the selected combination pays at least that, so a strict leaf does not
\* raise.
C13_ItemCombinationSufficient ==
    \A n \in LeafCalls :
        (n.self.type = "items"
         /\ RGe(ItemsValue(n.before.items, n.self.items), Required(n)))
        => /\ ~IsInsufficient(n.out)
           /\ RGe(Paid(n), Required(n))

\* C14: for a non-negative integer p, Experience(p).to_level() is (L, r) with
\* L the largest level whose from_level is at most p, that is
\* from_level(L) <= p < from_level(L + 1), and r = p - from_level(L).
C14_ToLevelRoundTrip ==
    last.op = "to_level"
    => LET p == last.call.args[1]
           L == last.call.result[1]
           r == last.call.result[2]
       IN  /\ L >= 0
           /\ RLe(I(from_level(L)), p)
           /\ RLt(p, I(from_level(L + 1)))
           /\ r = RSub(p, I(from_level(L)))
           /\ \A l \in 0..(2 * L + 2) : RLe(I(from_level(l)), p) => l <= L

\* C14 witness: points sitting exactly on a level above 31, where from_level
\* uses its third formula
C14_Witness ==
    /\ last.op = "to_level"
    /\ last.call.result[1] > 31
    /\ last.call.result[2] = Zero

\* the least integer at or above a rational, found by search
LeastIntegerAtLeast(q) ==
    CHOOSE N \in (-Abs(Num(q)) - 1)..(Abs(Num(q)) + 1) :
        RLe(q, I(N)) /\ RLt(I(N - 1), q)

\* the strategy of the end-to-end example: euclidean distance, linear cost of
\* base 0 and scale 1, strict ExperienceCost in points at rate 1
EndToEndConfig ==
    Config(PlainCalculators,
           ExperienceCost("propagate", "strict", I(1), "points",
                          DefaultProbability, ""))

\* C15: an ExperienceCost in points mode requires N = ceil(cost_value * rate)
\* points; with P >= N points the resulting state holds P - N and the command
\* list is exactly xp add @s -N points.  Built by create_cost_strategy with
\* euclidean distance and linear cost (base 0, scale 1), rate 1, a teleport
\* from (0, 0, 0) to (30, 0, 40) with 100 points costs 50: the command is
\* xp add @s -50 points and 50 points remain.
C15_PointsModeDeduction ==
    /\ \A n \in LeafCalls :
          (n.self.type = "experience" /\ n.self.draw = "points"
           /\ RGe(Required(n), Zero)
           /\ RGe(n.before.experience, I(LeastIntegerAtLeast(Required(n)))))
          => LET N == LeastIntegerAtLeast(Required(n))
             IN  /\ n.out.raised = ""
                 /\ n.out.resources.experience
                        = RSub(n.before.experience, I(N))
                 /\ n.out.commands
                        = <<Command("xp add @s", <<"points">>, I(-N), 0)>>
    /\ (/\ last.op = "calculate_commands"
        /\ strategy = [built |-> TRUE, config |-> EndToEndConfig]
        /\ last.call.before.experience = I(100)
        /\ last.call.cost_value
             = compute(EndToEndConfig.cost,
                       calculate(EndToEndConfig.distance,
                                 Position(<<0, 0, 0>>, "overworld"),
                                 Position(<<30, 0, 40>>, "overworld"))))
       => /\ last.call.cost_value = I(50)
          /\ last.call.out.commands
                = <<Command("xp add @s", <<"points">>, I(-50), 0)>>
          /\ last.call.out.resources.experience = I(50)

\* C15 witness: the end-to-end example has run
C15_Witness ==
    /\ last.op = "calculate_commands"
    /\ strategy = [built |-> TRUE, config |-> EndToEndConfig]
    /\ last.call.before.experience = I(100)
    /\ last.call.cost_value = I(50)
    /\ last.call.out.raised = ""

\* a call whose cost_value * rate is no integer and was rounded up
C15_RoundedUp ==
    \E n \in LeafCalls :
        /\ n.self.type = "experience" /\ n.self.draw = "points"
        /\ ~RIsInt(Required(n))
        /\ n.out.raised = ""

\* the limits of the calculator of an evaluation
EvaluationLimits ==
    IF last.op = "calculate"
    THEN <<last.call.args[1].min_distance, last.call.args[1].max_distance>>
    ELSE <<last.call.args[1].min_cost, last.call.args[1].max_cost>>

\* C16: every distance calculator and both cost calculators return a value r
\* with min <= r <= max for the configured limits, whatever the magnitude of
\* the input and whatever the scale.
C16_ResultWithinLimits ==
    last.op \in {"calculate", "compute"}
    => /\ last.error = ""
       /\ RLe(EvaluationLimits[1], last.call.result)
       /\ RLe(last.call.result, EvaluationLimits[2])

\* whatever a calculator returns is within its limits
C16_ReturnedWithinLimits ==
    (last.op \in {"calculate", "compute"} /\ last.error = "")
    => /\ RLe(EvaluationLimits[1], last.call.result)
       /\ RLe(last.call.result, EvaluationLimits[2])

\* an exponential cost with a finite max_cost that raised
C16_Overflow ==
    /\ last.op = "compute"
    /\ last.error = "OverflowError"
    /\ last.call.args[1].max_cost # PosInf

\* C17: a Hunger that starts with 0 <= level <= 20 and saturation_level >= 0
\* keeps level within [0, 20] and saturation_level >= 0 after any assignment
\* to total, whatever the value and however many assignments.
C17_HungerWithinRange ==
    /\ RLe(Zero, resources.hunger.level)
    /\ RLe(resources.hunger.level, I(20))
    /\ RLe(Zero, resources.hunger.saturation_level)

\* whatever is assigned, level stays at or below 20 and saturation_level at
\* or above 0; level stays at or above 0 unless the value assigned is below
\* -exhaustion_level / 4
C17_HungerUpperRange ==
    /\ RLe(resources.hunger.level, I(20))
    /\ RLe(Zero, resources.hunger.saturation_level)
    /\ (last.op = "total"
        /\ RLe(Zero, last.call.args[1].level)
        /\ RGe(last.call.args[2],
               RNeg(RDiv(last.call.args[1].exhaustion_level, I(4)))))
       => RLe(Zero, resources.hunger.level)

C18_DrainReachedLevel ==
    /\ last.op = "total"
    /\ RGt(last.call.args[1].saturation_level, Zero)
    /\ RLt(last.call.result.level, last.call.args[1].level)

C18_IncreaseOverflowed ==
    /\ last.op = "total"
    /\ RLt(last.call.args[1].level, I(20))
    /\ RGt(last.call.result.saturation_level,
           last.call.args[1].saturation_level)

\* the leaf calls that raised their insufficiency error
RaisedLeaves(type) ==
    {n \in LeafCalls : n.self.type = type /\ IsInsufficient(n.out)}

C19_RandomDrawnPoints ==
    \E n \in RaisedLeaves("experience") :
        n.self.strategy = "random" /\ n.out.err.strategy = "points"

C19_RandomDrawnLevel ==
    \E n \in RaisedLeaves("experience") :
        n.self.strategy = "random" /\ n.out.err.strategy = "level"

\* a consumption configuration with an unknown type tag, at any depth
RECURSIVE UnknownConsumption(_)
UnknownConsumption(cfg) ==
    \/ cfg.type \notin CONSUMPTION_TYPES
    \/ /\ cfg.type = "composite"
       /\ \E i \in DOMAIN cfg.costs : UnknownConsumption(cfg.costs[i])

UnknownType(config) ==
    \/ config.distance.type \notin DISTANCE_TYPES
    \/ config.cost.type \notin COST_TYPES
    \/ UnknownConsumption(config.consumption)

\* C20: an unknown type tag anywhere in the configuration (distance, cost,
\* consumption, a child of a composite) makes create_cost_strategy fail: no
\* strategy is built from such a configuration, and no call of a strategy
\* fails because of an unknown tag.
C20_UnknownTypeFailsAtBuild ==
    /\ strategy.built => ~UnknownType(strategy.config)
    /\ last.op = "calculate_commands" => last.call.out.raised # "KeyError"

\* an unknown tag of distance, cost or consumption itself fails the build
C20_TopLevelUnknownFailsAtBuild ==
    strategy.built
    => /\ strategy.config.distance.type \in DISTANCE_TYPES
       /\ strategy.config.cost.type \in COST_TYPES
       /\ strategy.config.consumption.type \in CONSUMPTION_TYPES

\* a build that failed on an unknown tag
C20_BuildFailed ==
    last.op = "create_cost_strategy" /\ last.error = "KeyError"

\* a call of a built strategy that failed on the unknown tag of a composite's
\* child
C20_CallFailed ==
    /\ last.op = "calculate_commands"
    /\ last.call.out.raised = "KeyError"
    /\ UnknownConsumption(strategy.config.consumption)

\* C21: HealthCost.apply_cost subtracts cost_value * rate from
\* resources.health and returns exactly one command damage @s <amount>
\* <damage_type> whose amount is the health deducted from the state, unless
\* it raises its insufficiency error.
C21_HealthDeducted ==
    \A n \in LeafCalls :
        (n.self.type = "health" /\ ~IsInsufficient(n.out))
        => /\ n.out.raised = ""
           /\ n.out.resources.health = RSub(n.before.health, Required(n))
           /\ n.out.commands
                 = <<Command("damage @s", <<n.self.damage_type>>,
                             RSub(n.before.health, n.out.resources.health),
                             0)>>

\* every HealthCost.apply_cost call ends in TypeError with the state as it was
C21_HealthAlwaysTypeError ==
    \A n \in LeafCalls :
        n.self.type = "health"
        => n.out.raised = "TypeError" /\ n.out.resources = n.before

\* a HealthCost.apply_cost call
C21_HealthCalled ==
    \E n \in LeafCalls : n.self.type = "health"

\* the hunger leaf calls that returned
HungerReturns ==
    {n \in LeafCalls : n.self.type = "hunger" /\ n.out.raised = ""}

\* current and target of a hunger leaf call
CurrentHunger(n) == RMax(Zero, hunger_total(n.before.hunger))
TargetHunger(n) == RMax(Zero, RSub(CurrentHunger(n), Required(n)))

\* the effect commands among the commands of a call
EffectCommands(n) ==
    {i \in DOMAIN n.out.commands :
        n.out.commands[i].cmd = "effect give @s minecraft:hunger"}

C22_NegativeTotal ==
    \E n \in HungerReturns : RLt(hunger_total(n.before.hunger), Zero)

\* the item leaf calls that returned
ItemReturns ==
    {n \in LeafCalls : n.self.type = "items" /\ n.out.raised = ""}

\* the stacks of an id in list order, and the commands on an id in order
StacksOf(items, id) == SelectSeq(items, LAMBDA x : x.id = id)
CommandsOn(commands, id) == SelectSeq(commands, LAMBDA c : c.what[1] = id)

RECURSIVE AmountSum(_)
AmountSum(commands) ==
    IF commands = <<>> THEN 0
    ELSE Num(Head(commands).amount) + AmountSum(Tail(commands))

\* the count calculate_combination selected of an id in a call
SelectedCount(n, id) ==
    LET consumed == calculate_combination(n.self.items,
                        make_id_counts(n.before.items, n.self.items),
                        Required(n), n.self.draw)
        at == {j \in DOMAIN consumed : consumed[j][1] = id}
    IN  IF at = {} THEN 0 ELSE consumed[CHOOSE j \in at : TRUE][2]

\* the ids of the stacks and of the price table of a call
IdsOf(n) ==
    {n.before.items[j].id : j \in DOMAIN n.before.items}
    \cup {n.self.items[j][1] : j \in DOMAIN n.self.items}

\* C23: ItemValueCost.apply_cost applies the selection to the stacks.  Per
\* id, with k the number of stacks that left the list: the first k stacks of
\* the id are gone, the next one may have lost a part, the others are as they
\* were, in order; there is one clear command per stack portion, in stack
\* order, naming the stack's item and the count taken from it; the commands'
\* counts add up to the selected count and to the decrease of the id's total;
\* no stack of a selected id is left with count zero.
C23_SelectionAppliedToStacks ==
    \A n \in ItemReturns : \A id \in IdsOf(n) :
        LET B == StacksOf(n.before.items, id)
            A == StacksOf(n.out.resources.items, id)
            C == CommandsOn(n.out.commands, id)
            k == Len(B) - Len(A)
            part == IF Len(A) > 0 /\ A[1].count < B[k + 1].count
                    THEN 1 ELSE 0
        IN  /\ k >= 0
            /\ \A j \in 1..Len(A) :
                  /\ A[j].id = B[k + j].id
                  /\ A[j].components = B[k + j].components
                  /\ j > 1 => A[j].count = B[k + j].count
                  /\ A[j].count <= B[k + j].count
                  /\ SelectedCount(n, id) > 0 => A[j].count > 0
            /\ Len(C) = k + part
            /\ \A j \in 1..Len(C) :
                  /\ C[j].cmd = "clear @s"
                  /\ C[j].what = to_component(B[j])
                  /\ C[j].amount
                        = I(B[j].count - (IF j <= k THEN 0 ELSE A[1].count))
            /\ AmountSum(C) = SelectedCount(n, id)
            /\ stack_sum(n.before.items, id)
                  - stack_sum(n.out.resources.items, id)
                  = SelectedCount(n, id)
            /\ Len(n.out.commands)
                  = Cardinality({c \in DOMAIN n.out.commands :
                                    n.out.commands[c].cmd = "clear @s"})

\* C23 witness: a first stack consumed whole and removed, the second in part
C23_Witness ==
    \E n \in ItemReturns :
        /\ Len(StacksOf(n.before.items, "A")) = 2
        /\ Len(StacksOf(n.out.resources.items, "A")) = 1
        /\ Len(CommandsOn(n.out.commands, "A")) = 2
        /\ n.out.resources.items[1].count < n.before.items[2].count

\* the overshoot of amplifier a on d: ceil(d / a) * a - d
Overshoot(d, a) ==
    RSub(I(LeastIntegerAtLeast(RDiv(d, I(a))) * a), d)

\* C24: calculate_hunger_effect(food_level, target_level) is (0, 0) when
\* food_level <= target_level; otherwise, with d = (food_level -
\* target_level) / 0.025, it is (duration, amplifier) with 1 <= amplifier <=
\* 255, duration = ceil(d / amplifier), an overshoot that no amplifier of
\* 1..255 undercuts, and the largest amplifier among those of that overshoot.
C24_HungerEffectOptimal ==
    last.op = "calculate_hunger_effect"
    => LET food_level == last.call.args[1]
           target_level == last.call.args[2]
           duration == last.call.result[1]
           amplifier == last.call.result[2]
           d == RMul(RSub(food_level, target_level), I(40))
       IN  IF RLe(food_level, target_level)
           THEN last.call.result = <<0, 0>>
           ELSE /\ amplifier \in 1..MaxAmplifier
                /\ duration = LeastIntegerAtLeast(RDiv(d, I(amplifier)))
                /\ duration >= 1
                /\ \A a \in 1..MaxAmplifier :
                      /\ RLe(Overshoot(d, amplifier), Overshoot(d, a))
                      /\ Overshoot(d, a) = Overshoot(d, amplifier)
                         => a <= amplifier

\* C24 witness: no amplifier has zero overshoot and two of them tie (d = 2.5:
\* amplifiers 1 and 3 overshoot by 0.5), the larger one is returned
C24_Witness ==
    /\ last.op = "calculate_hunger_effect"
    /\ last.call.args = <<<<1, 16>>, Zero>>
    /\ last.call.result = <<1, 3>>

\* a zero overshoot found below the top of the range: d = 800 gives (4, 200)
C24_ZeroOvershoot ==
    /\ last.op = "calculate_hunger_effect"
    /\ last.call.args = <<I(20), Zero>>
    /\ last.call.result = <<4, 200>>

\* the dimensions the surcharge table of the model's calculators knows
Dimensions == DOMAIN DefaultCrossDimensionalCost

\* C25: DistanceCalculator.calculate returns clamp(raw * scale, min_distance,
\* max_distance) of the two coordinates only: with the same coordinates, any
\* two dimensions of the surcharge table give the same value, the
\* cross-dimensional surcharge never being added.
C25_DimensionIgnored ==
    last.op = "calculate"
    => LET self == last.call.args[1]
           from_coordinate == last.call.args[2].coordinate
           to_coordinate == last.call.args[3].coordinate
       IN  /\ last.call.result
                 = RMax(self.min_distance,
                        RMin(self.max_distance,
                             RMul(coordinate_distance(self, from_coordinate,
                                                      to_coordinate),
                                  self.scale)))
           /\ \A d1 \in Dimensions, d2 \in Dimensions :
                 calculate(self, Position(from_coordinate, d1),
                           Position(to_coordinate, d2)) = last.call.result

\* C25 witness: a call across dimensions, with a surcharge of 70 computed, of
\* a calculator without limits: the result is the scaled coordinate distance
C25_Witness ==
    /\ last.op = "calculate"
    /\ last.call.args[2].dimension # last.call.args[3].dimension
    /\ cross_dimensional_cost(last.call.args[1], last.call.args[2],
                              last.call.args[3]) = 70
    /\ last.call.args[1].type = "euclidean"
    /\ last.call.args[1].max_distance = PosInf
    /\ last.call.args[1].scale = I(1)
    /\ last.call.result = I(500)

\* C26: for cost_value >= 0 and rate > 0 the remaining value a propagate
\* leaf returns, and every value a CompositeCost passes to a child, lies in
\* [0, cost_value]: it never becomes negative, so no later child is charged a
\* negative cost.
C26_RemainingWithinCost ==
    /\ \A n \in LeafCalls :
          (/\ n.self.pass_strategy = "propagate" /\ n.out.raised = ""
           /\ RGe(n.cost_value, Zero) /\ RGt(n.self.rate, Zero))
          => /\ RGe(n.out.remaining, Zero)
             /\ RLe(n.out.remaining, n.cost_value)
    /\ \A n \in CompositeCalls :
          RGe(n.cost_value, Zero)
          => \A i \in DOMAIN n.out.children :
                /\ RGe(n.out.children[i].cost_value, Zero)
                /\ RLe(n.out.children[i].cost_value, n.cost_value)

\* a composite called with a cost_value >= 0 whose hunger child was charged a
\* negative cost and left the player with more hunger points than before
C26_HungerAdded ==
    /\ RGe(last.call.cost_value, Zero)
    /\ \E n \in LeafCalls :
          /\ n.self.type = "hunger"
          /\ RLt(n.cost_value, Zero)
          /\ n.out.raised = ""
          /\ RGt(hunger_total(n.out.resources.hunger),
                 hunger_total(n.before.hunger))

\* the remaining value never exceeds the cost_value of the call
C26_RemainingAtMostCost ==
    \A n \in LeafCalls :
        (/\ n.self.pass_strategy = "propagate" /\ n.out.raised = ""
         /\ n.self.type # "health"
         /\ RGe(n.cost_value, Zero) /\ RGt(n.self.rate, Zero)
         /\ RGe(Pool(n.self, n.before), Zero))
        => RLe(n.out.remaining, n.cost_value)


\* the children of lenient composites whose call raised an insufficiency
\* error, which the composite swallowed
SwallowedChildren ==
    {c \in UNION {{n.out.children[i] : i \in DOMAIN n.out.children} :
                     n \in {m \in CompositeCalls :
                               m.self.check_strategy = "lenient"}} :
        IsInsufficient(c.out)}

\* C27: when a child of a lenient CompositeCost raises an insufficiency
\* error, the resource state the next child sees is the state before the
\* failed child was invoked, also when the failed child is a strict
\* CompositeCost whose earlier children had already deducted resources.
C27_FailedChildLeavesState ==
    \A c \in SwallowedChildren : c.out.resources = c.before

\* a strict composite failed inside a lenient one after its experience child
\* had deducted: the experience stays deducted and its command is dropped
C27_NestedDeductionKept ==
    \E c \in SwallowedChildren :
        /\ c.self.type = "composite"
        /\ RLt(c.out.resources.experience, c.before.experience)
        /\ \E i \in DOMAIN c.out.children :
              /\ c.out.children[i].self.type = "experience"
              /\ c.out.children[i].out.raised = ""
              /\ c.out.children[i].out.commands # <<>>

\* a leaf that raises an insufficiency error raises before it deducts
C27_FailedLeafLeavesState ==
    \A c \in SwallowedChildren :
        c.self.type \in LeafTypes => c.out.resources = c.before


\* the returned calls of an ExperienceCost that charged in levels
LevelReturns ==
    {n \in LeafCalls : /\ n.self.type = "experience"
                       /\ n.self.draw = "level"
                       /\ n.out.raised = ""}

\* C28: ExperienceCost in level mode deducts from the ResourceState what its
\* command `xp add @s -<levels> levels` removes: after the call the level
\* equivalent of resources.experience has dropped by cost_value * rate
\* levels, not by cost_value * rate raw points.
C28_LevelModeDeductsLevels ==
    \A n \in LevelReturns :
        RSub(Levels(n.before.experience), Levels(n.out.resources.experience))
            = Required(n)

\* what the code does in level mode: the number of levels is subtracted from
\* the raw points
C28_LevelModeDeductsPoints ==
    \A n \in LevelReturns :
        /\ n.out.resources.experience
              = RSub(n.before.experience, Required(n))
        /\ n.out.commands
              = <<Command("xp add @s", <<"levels">>, RNeg(Required(n)), 0)>>

\* a level-mode call the player can afford removed fewer levels from the
\* state than its command removes from the player
C28_FewerLevelsDeducted ==
    \E n \in LevelReturns :
        /\ RGt(Required(n), Zero)
        /\ RGe(Levels(n.before.experience), Required(n))
        /\ RLt(RSub(Levels(n.before.experience),
                    Levels(n.out.resources.experience)), Required(n))


\* the calls of ItemValueCost.apply_cost, returned or raised
ItemCalls == {n \in LeafCalls : n.self.type = "items"}

\* the state of calculate_combination after step 1 in a call
Pass1(n) ==
    combination_pass1(sorted_items(n.self.items, n.self.draw = "higher-first"),
                      1, make_id_counts(n.before.items, n.self.items),
                      [result |-> [k \in {n.self.items[j][1] :
                                             j \in DOMAIN n.self.items} |-> 0],
                       remaining |-> Required(n)])

\* the selection calculate_combination returns in a call, and its exact value
Selection(n) ==
    calculate_combination(n.self.items,
                          make_id_counts(n.before.items, n.self.items),
                          Required(n), n.self.draw)

RECURSIVE SelectionValue(_, _)
SelectionValue(consumed, items_dict) ==
    IF consumed = <<>> THEN Zero
    ELSE RAdd(RMul(I(Head(consumed)[2]), Price(items_dict, Head(consumed)[1])),
              SelectionValue(Tail(consumed), items_dict))

Overpayment(n) == RSub(SelectionValue(Selection(n), n.self.items), Required(n))

\* step 1 pays at most the required value and takes at most the available
\* units; a selection that covers the required value overpays by less than the
\* unit price of one of its items
OverpaymentBounded(n) ==
    /\ RGe(Pass1(n).remaining, Zero)
    /\ \A k \in DOMAIN Pass1(n).result :
          Pass1(n).result[k]
              <= Count(make_id_counts(n.before.items, n.self.items), k)
    /\ RGe(Overpayment(n), Zero)
       => \E j \in DOMAIN Selection(n) :
             RLt(Overpayment(n), Price(n.self.items, Selection(n)[j][1]))

\* C29 as stated: for every required value, step 1 of calculate_combination
\* never pays more than the required value and never selects more units of
\* an item than are available, and whenever the final selection covers the
\* required value, total_paid - required is strictly less than the unit price
\* of one of the selected items, for lower-first and higher-first.
C29_OverpaymentBoundedAlways ==
    \A n \in ItemCalls : OverpaymentBounded(n)

\* C29: the same for a required value above zero; for a required value of
\* zero or less nothing is selected, so nothing is paid and no selected item
\* bounds total_paid - required.
C29_OverpaymentBounded ==
    \A n \in ItemCalls :
        IF RGt(Required(n), Zero) THEN OverpaymentBounded(n)
        ELSE Selection(n) = <<>>

\* a call whose step 1 left a part unpaid, was topped up by step 2 and
\* overpaid, in the given order
ToppedUp(order) ==
    \E n \in ItemCalls :
        /\ n.self.draw = order
        /\ RGt(Required(n), Zero)
        /\ RGt(Pass1(n).remaining, Zero)
        /\ RLt(Pass1(n).remaining, Required(n))
        /\ RGt(Overpayment(n), Zero)

C29_Witness == ToppedUp("lower-first")

C29_ToppedUpHigherFirst == ToppedUp("higher-first")

\* a call with a negative required value: nothing is selected and
\* total_paid - required exceeds every unit price of the table
C29_NegativeRequired ==
    \E n \in ItemCalls :
        /\ RLt(Required(n), Zero)
        /\ Selection(n) = <<>>
        /\ \A j \in DOMAIN n.self.items :
              RGt(Overpayment(n), n.self.items[j][2])


\* what a handler thread has sent to the server, and the cost commands in it
Sent(t) == SelectSeq(server, LAMBDA e : e.thread = t)

RunsOf(sent) == [i \in DOMAIN sent |-> sent[i].run]

\* the strategy call of a frame raised an insufficiency error, or returned
Insufficient(frame) == frame.called /\ IsInsufficient(frame.call.out)
Charged(frame) == frame.called /\ frame.call.out.raised = ""

\* one step seen from thread t: a handler whose strategy call raised an
\* insufficiency error has returned with the cost failure as its only reply
\* and has sent and stored nothing; whatever t sends, it sends after a strategy
\* call that returned: the next cost command in the returned order, or the
\* teleport command once every cost command was sent; a home is stored once
\* every cost command was sent
HandlerStep(t) ==
    /\ (threads[t].pc = "idle" /\ threads'[t].pc # "idle")
       => /\ server' = server
          /\ HOMES' = HOMES
          /\ Insufficient(threads'[t])
             => /\ threads'[t].pc = "done"
                /\ Len(replies'[t]) = 1
                /\ replies'[t][1].key = "message.failure.cost"
                /\ replies'[t][1].resource_type
                      = threads'[t].call.out.err.resource_type
    /\ Sent(t)' # Sent(t)
       => /\ threads[t].pc = "execute"
          /\ Charged(threads[t])
          /\ Len(Sent(t)') = Len(Sent(t)) + 1
          /\ IF Sent(t)'[Len(Sent(t)')].cmd = "tp"
             THEN RunsOf(Sent(t)) = threads[t].call.out.commands
             ELSE RunsOf(Sent(t)')
                     = SubSeq(threads[t].call.out.commands, 1, Len(Sent(t)'))
    /\ (HOMES' # HOMES /\ threads'[t] # threads[t])
       => /\ threads[t].pc = "execute"
          /\ Charged(threads[t])
          /\ RunsOf(Sent(t)) = threads[t].call.out.commands

C30_HomeStoredThenUsed ==
    \E t \in Threads, u \in Threads :
        /\ threads[t].handler = "set_home"
        /\ threads[t].pc = "done"
        /\ Len(Sent(t)) >= 2
        /\ threads[u].handler = "tp2home"
        /\ threads[u].pc = "done"
        /\ Charged(threads[u])
        /\ Len(Sent(u)) >= 1

\* get_resource_state returned the ResourceState plugins_api.py declares: the
\* handler ended with the reply of an unknown failure before the strategy call
C30_DeclaredStateFails ==
    \A t \in Threads :
        (threads[t].pc # "idle" /\ ~threads[t].called
         /\ Len(replies[t]) = 1
         /\ replies[t][1].key = "message.failure.unknown")
        => Sent(t) = <<>>

====
